---------------------------- MODULE Spec2Model ----------------------------
(***************************************************************************)
(* RFIDuino: the SL018 (StrongLink, "variant A") and SM130 (SonMicro,      *)
(* "variant B") I2C reader drivers.  One reader object is modelled; which   *)
(* class it is an instance of is fixed in the initial state.  Every public  *)
(* member function is one action; the device and the I2C transport are the  *)
(* environment and supply the bytes a bus read delivers.                    *)
(***************************************************************************)
EXTENDS Integers, Sequences, FiniteSets, TLC

VARIABLES
    variant,        \* "SL018" or "SM130": the class of the reader object
    pinRESET,       \* public field pinRESET
    pinDREADY,      \* public field pinDREADY
    data,           \* byte data[SIZE_PACKET], indices 0..SIZE_PACKET-1
    tagNumber,      \* byte tagNumber[7], indices 0..6
    tagLength,      \* byte tagLength
    tagString,      \* char tagString[15] as the C string it holds (char codes)
    tagType,        \* byte tagType
    errorCode,      \* char errorCode (signed)
    antennaPower,   \* byte antennaPower (SM130 only)
    versionString,  \* char versionString[8], indices 0..7 (SM130 only)
    cmd,            \* byte cmd: last sent command
    ub,             \* a store went past the end of data, tagNumber or tagString
    op,             \* name of the member function called last
    args,           \* its arguments
    wire,           \* the frames it wrote to the bus, in order
    req,            \* byte count it requested from the bus (0: no bus read)
    rx,             \* the bytes the bus read delivered
    top,            \* highest index of data the bus read stored to (-1: none)
    rcvd,           \* the byte receiveData returned (0 when it was not called)
    ret,            \* what available() returned: "true", "false", "hangs"; "void" otherwise
    nops,           \* number of member function calls so far
    timed,          \* whether the run tracks time (SpecTiming) or not (Spec)
    millis0,        \* what millis() returned at time 0 (unsigned long)
    now,            \* the time in ms
    t,              \* unsigned long t: timer for sending I2C commands
    ownEnd,         \* <<time the last bus transaction of this object ended>>
    busEnd,         \* <<time the last transaction on the bus ended>>
    gate,           \* the waits and gaps of the bus transactions of the last call
    cur,            \* the reader object (1 or 2) the variables above describe
    other,          \* the fields of the other reader object on the same bus
    sketch,         \* the global variables of the sketch that uses the object
    dready,         \* the level of the DREADY line: TRUE is high, data ready
    pulse           \* the levels the last call wrote to the reset pin

vars == <<variant, pinRESET, pinDREADY, data, tagNumber, tagLength, tagString,
          tagType, errorCode, antennaPower, versionString, cmd, ub,
          op, args, wire, req, rx, top, rcvd, ret, nops,
          timed, millis0, now, t, ownEnd, busEnd, gate, cur, other, sketch,
          dready, pulse>>

object == <<data, tagNumber, tagLength, tagString, tagType, errorCode,
            antennaPower, versionString, cmd, ub>>

config == <<variant, pinRESET, pinDREADY, timed, millis0>>

timing == <<now, t, ownEnd, busEnd, gate>>

lines == <<dready, pulse>>

---------------------------------------------------------------------------
(* Bounds of the model.                                                    *)

\* calls of member functions in one run
MaxOps == 3
\* calls of member functions before a frame is read back (SpecRoundTrip)
MaxFrames == 2
\* calls of member functions in a run that tracks time (SpecTiming)
MaxTimedOps == 2
\* calls of member functions in a run of the demo sketch (SpecSketch)
MaxSketchOps == 16
\* characters the demo sketch reads from the serial port (SpecSketch)
MaxKeys == 2

\* calls of member functions in a run that fetches the firmware version
\* (SpecVersion)
MaxVersionOps == 44
\* calls of getFirmwareVersion() in such a run
MaxFetches == 2
\* calls of other member functions by the caller in such a run
MaxOthers == 4
\* passes of loop() in a run of the seek loop (SpecSeek)
MaxRounds == 3
\* calls of available() in one pass that find no tag record
MaxPolls == 3
\* block, sector and page numbers range over 1..MaxBlock
MaxBlock == 1

---------------------------------------------------------------------------
(* Program constants.                                                      *)

SL018_SIZE_PACKET == 19
SM130_SIZE_PAYLOAD == 18
SM130_SIZE_PACKET == SM130_SIZE_PAYLOAD + 2
SIZE_TAGNUMBER == 7
SIZE_TAGSTRING == 15
SIZE_VERSIONSTRING == 8
PIN_NONE == 255

SL018_CMD_IDLE == 0
SL018_CMD_SELECT == 1
SL018_CMD_LOGIN == 2
SL018_CMD_READ16 == 3
SL018_CMD_WRITE16 == 4
SL018_CMD_READ_VALUE == 5
SL018_CMD_WRITE_VALUE == 6
SL018_CMD_WRITE_KEY == 7
SL018_CMD_INC_VALUE == 8
SL018_CMD_DEC_VALUE == 9
SL018_CMD_COPY_VALUE == 10
SL018_CMD_READ4 == 16
SL018_CMD_WRITE4 == 17
SL018_CMD_SEEK == 32
SL018_CMD_SET_LED == 64
SL018_CMD_SLEEP == 80
SL018_CMD_RESET == 255
SL018_OK == 0
SL018_NO_TAG == 1

SM130_CMD_RESET == 128
SM130_CMD_VERSION == 129
SM130_CMD_SEEK_TAG == 130
SM130_CMD_SELECT_TAG == 131
SM130_CMD_AUTHENTICATE == 133
SM130_CMD_READ16 == 134
SM130_CMD_READ_VALUE == 135
SM130_CMD_WRITE16 == 137
SM130_CMD_WRITE_VALUE == 138
SM130_CMD_WRITE4 == 139
SM130_CMD_WRITE_KEY == 140
SM130_CMD_INC_VALUE == 141
SM130_CMD_DEC_VALUE == 142
SM130_CMD_ANTENNA_POWER == 144
SM130_CMD_HALT_TAG == 147
SM130_CMD_SLEEP == 150
\* 'N': the SM130's "no tag present" status
SM130_NO_TAG == 78
\* 'L': the SM130's "seek in progress" status
SM130_SEEK_IN_PROGRESS == 76

---------------------------------------------------------------------------
(* Bytes, buffers and strings.                                             *)

Byte == 0..255

\* the value of a byte stored in a (signed) char
ToChar(b) == IF b >= 128 THEN b - 256 ELSE b

Min(a, b) == IF a < b THEN a ELSE b

\* memcpy(buf + off, s, Len(s)) for the part that lies inside buf
PutSeq(buf, off, s) ==
    [i \in DOMAIN buf |->
        IF i >= off /\ i < off + Len(s) THEN s[i - off + 1] ELSE buf[i]]

\* the n bytes buf[off], ..., buf[off+n-1] as a sequence; a byte that lies
\* past the end of buf reads as pad
Slice(buf, off, n, pad) ==
    [k \in 1..n |-> IF (off + k - 1) \in DOMAIN buf THEN buf[off + k - 1] ELSE pad]

\* strncpy(dst, s, n): the n bytes written for the C string s
Strncpy(s, n) == [k \in 1..n |-> IF k <= Len(s) THEN s[k] ELSE 0]

\* the sum of the first n bytes of a sequence in a byte accumulator
RECURSIVE SumFirst(_, _)
SumFirst(s, n) == IF n = 0 THEN 0 ELSE (SumFirst(s, n - 1) + s[n]) % 256

\* the sum of a sequence of bytes in a byte accumulator
SumBytes(s) == SumFirst(s, Len(s))


---------------------------------------------------------------------------
(* Global helper functions (the same in SL018.cpp and SM130.cpp).          *)

\* a toHex that writes the digits above 9 in lowercase
toHex_Lower(b) == LET n == b % 16 IN IF n < 10 THEN n + 48 ELSE n + 97 - 10

\* char toHex(byte b): the low nibble as an uppercase hexadecimal digit
toHex(b) == LET n == b % 16 IN IF n < 10 THEN n + 48 ELSE n + 65 - 10

\* void arrayToHex(char *s, byte array[], byte len): the characters written
\* before the terminating zero
arrayToHex(array) ==
    [k \in 1..(2 * Len(array)) |->
        IF k % 2 = 1 THEN toHex(array[(k + 1) \div 2] \div 16)
                     ELSE toHex(array[k \div 2])]

---------------------------------------------------------------------------
(* The environment: argument values and device responses.                  *)

Blocks == 1..MaxBlock

KeyTypes == {187}

\* byte key[6]
Keys == {<<165, 165, 165, 165, 165, 165>>}

\* 16-byte messages passed to SL018::writeBlock / 4-byte ones to writePage
Messages16 == {[k \in 1..16 |-> 64 + k]}

Messages4 == {[k \in 1..4 |-> 64 + k]}

\* C strings passed to SM130::writeBlock and SM130::writeFourByteBlock
Strings == {<<72, 105>>, [k \in 1..16 |-> 64 + k]}

\* payload byte at offset i >= 3 of a device frame: AA BB CC DD EE FF 10 ...
IdByte(i) == (170 + 17 * (i - 3)) % 256

\* what Wire.read() gives when the receive buffer is exhausted: -1 as a byte
WIRE_EMPTY == 255

\* the first n bytes a bus read of a device frame delivers; past the frame
\* the released bus reads as ones
Deliver(frame, n) ==
    [k \in 1..n |-> IF k <= Len(frame) THEN frame[k] ELSE 255]

---------------------------------------------------------------------------
(* The millisecond clock and the gate in front of every bus transaction.   *)

\* an unsigned long is kept as <<high, low>>, two limbs of 16 bits
ULONG_LIMB == 65536

\* u + n in unsigned long arithmetic (modulo 2^32)
ULongAdd(u, n) ==
    LET s == u[2] + n
    IN  <<(u[1] + s \div ULONG_LIMB) % ULONG_LIMB, s % ULONG_LIMB>>

\* a > b on unsigned long
ULongGT(a, b) == a[1] > b[1] \/ (a[1] = b[1] /\ a[2] > b[2])

\* millis() at time n
millis(n) == ULongAdd(millis0, n)

\* t = millis() + 20
GATE_MS == 20

\* t = millis() + 10 in the constructors
CTOR_MS == 10

\* delay(200) in reset(): "allow enough time for reset"
RESET_MS == 200

\* delay(10) in reset(): the pulse on the reset pin
PULSE_MS == 10

\* waits are followed exactly up to this length; a longer one is recorded as
\* WaitCap, and the run is not followed further
WaitCap == 2 * ULONG_LIMB

\* while(tt > millis()); entered at time n: the ms until the loop exits
Wait(tt, n) ==
    LET m == millis(n)
    IN  IF ~ULongGT(tt, m) THEN 0
        ELSE IF tt[1] - m[1] <= 1
          THEN (tt[1] - m[1]) * ULONG_LIMB + tt[2] - m[2]
          ELSE WaitCap

\* ms the caller lets pass before a call, and ms a bus transaction takes
Delays == {0, 25}

Durations == {0, 3}

\* the bus transactions of the call that ends in the primed state, each
\* given as the delay() that precedes it within the call: the read of
\* available(), then the frames written
Transactions ==
    (IF req' > 0 THEN <<0>> ELSE <<>>)
    \o [i \in 1..Len(wire') |->
          IF op' = "reset" /\ variant = "SM130" /\ i = Len(wire') - 1
            THEN RESET_MS + (IF pinRESET # PIN_NONE THEN PULSE_MS ELSE 0)
            ELSE 0]

\* the delay() after the last bus transaction of the call (SL018::reset)
Trailing ==
    IF op' = "reset" /\ variant = "SL018"
      THEN RESET_MS + (IF pinRESET # PIN_NONE THEN PULSE_MS ELSE 0)
      ELSE 0

\* the head of transmitData and of receiveData, once per bus transaction:
\* while(t > millis()); t = millis() + 20; then the transaction, which takes
\* d ms.  acc holds the time, t, the ends of the last transactions, and the
\* waits and gaps (from the end of the last transaction to the begin of this
\* one) seen so far.
RECURSIVE GateRun(_, _, _)
GateRun(pres, d, acc) ==
    IF pres = <<>> THEN acc
    ELSE LET n0    == acc.now + Head(pres)
             w     == Wait(acc.t, n0)
             begin == n0 + w
         IN  GateRun(Tail(pres), d,
                [now     |-> begin + d,
                 t       |-> ULongAdd(millis(begin), GATE_MS),
                 ownEnd  |-> <<begin + d>>,
                 busEnd  |-> <<begin + d>>,
                 waits   |-> Append(acc.waits, w),
                 gaps    |-> acc.gaps
                             \o [i \in 1..Len(acc.ownEnd) |-> begin - acc.ownEnd[1]],
                 busGaps |-> acc.busGaps
                             \o [i \in 1..Len(acc.busEnd) |-> begin - acc.busEnd[1]]])

\* a further call is followed: the number of calls is bounded, and a run
\* that tracks time ends with a wait longer than WaitCap; the seek loop
\* bounds its calls by its own counters
OpsLeft ==
    IF timed
      THEN /\ nops < MaxTimedOps
           /\ \A i \in 1..Len(gate.waits) : gate.waits[i] < WaitCap
      ELSE IF sketch.on
        THEN \/ "rounds" \in DOMAIN sketch
             \/ nops < (IF "fw" \in DOMAIN sketch THEN MaxVersionOps
                                                    ELSE MaxSketchOps)
      ELSE nops < MaxOps

\* no sketch: the member functions are called in any order
NoSketch == [on |-> FALSE]

\* no bus transaction yet in this call
NoGate == [waits |-> <<>>, gaps |-> <<>>, busGaps |-> <<>>]

\* digitalWrite(pinRESET, HIGH); delay(10); digitalWrite(pinRESET, LOW) in
\* reset() when pinRESET != 0xff: the levels written, each with the number
\* of frames the call has written to the bus before it
ResetPulse ==
    IF op' = "reset" /\ pinRESET # PIN_NONE
      THEN <<[level |-> "HIGH", sent |-> 0], [level |-> "LOW", sent |-> 0]>>
      ELSE <<>>

\* the command that puts the reader in SEEK mode
SeekCommand == IF variant = "SL018" THEN SL018_CMD_SEEK ELSE SM130_CMD_SEEK_TAG

\* the levels the DREADY line may have when the next call is made; the line
\* is followed only where a DREADY pin is configured and a seek is pending
Levels(c) ==
    IF pinDREADY # PIN_NONE /\ c = SeekCommand THEN BOOLEAN ELSE {TRUE}

\* data index of the first byte behind an SL018 object: data[19],
\* tagNumber[7], tagLength, tagString[15], tagType, errorCode, cmd and the
\* 4 bytes of t lie before it
SL018_OFFSET_end == 19 + 7 + 1 + 15 + 1 + 1 + 1 + 4

\* offset of data in an SL018 object: debug, address, pinRESET and pinDREADY
\* come before it
SL018_OFFSET_data == 4

\* Stores of receiveData past the end of the reader object are undefined
\* behaviour.  Two outcomes are modelled: the other reader object lies
\* elsewhere and keeps its fields, or it lies directly behind this one
\* (SL018 rfid1; SL018 rfid2;) and its packet buffer takes the bytes.
Neighbour ==
    IF timed /\ variant = "SL018"
             /\ top' >= SL018_OFFSET_end + SL018_OFFSET_data
      THEN {other,
            [other EXCEPT !.data =
                [j \in DOMAIN other.data |->
                    IF SL018_OFFSET_end + SL018_OFFSET_data + j <= top'
                      THEN WIRE_EMPTY ELSE other.data[j]]]}
      ELSE {other}

\* the rest of a call of a member function: the passing of time, the pins,
\* and the other reader object, which the call does not refer to; the
\* variables of the sketch are for the sketch to change
Gate ==
    /\ cur' = cur
    /\ other' \in Neighbour
    /\ pulse' = ResetPulse
    /\ dready' \in Levels(cmd')
    /\ IF sketch.on THEN TRUE ELSE UNCHANGED sketch
    /\ IF ~timed
         THEN UNCHANGED timing
         ELSE /\ \E delay \in Delays, d \in Durations :
                   \E acc \in {GateRun(Transactions, d,
                                  [now |-> now + delay, t |-> t,
                                   ownEnd |-> ownEnd, busEnd |-> busEnd,
                                   waits |-> <<>>, gaps |-> <<>>,
                                   busGaps |-> <<>>])} :
                     /\ now' = acc.now + Trailing
                     /\ t' = acc.t
                     /\ ownEnd' = acc.ownEnd
                     /\ busEnd' = acc.busEnd
                     /\ gate' = [waits |-> acc.waits, gaps |-> acc.gaps,
                                 busGaps |-> acc.busGaps]

---------------------------------------------------------------------------
(* SL018: sending commands.                                                *)

\* a transmit loop that runs one byte too far: i = 0 .. data[0] + 1
SL018_transmitData_OneMore(d) == Slice(d, 0, d[0] + 2, 0)

\* the bytes SL018::transmitData writes: data[i] for i = 0 .. data[0]
SL018_transmitData(d) == Slice(d, 0, d[0] + 1, 0)

\* a member function that fills data with d and calls transmitData once;
\* c is the value cmd has when the function returns
SL018_Send(name, a, d, c) ==
    /\ variant = "SL018"
    /\ ret # "hangs"
    /\ OpsLeft
    /\ data' = d
    /\ cmd' = c
    /\ wire' = <<SL018_transmitData(d)>>
    /\ op' = name
    /\ args' = a
    /\ req' = 0
    /\ rx' = <<>>
    /\ top' = -1
    /\ rcvd' = 0
    /\ ret' = "void"
    /\ nops' = nops + 1
    /\ UNCHANGED <<config, tagNumber, tagLength, tagString, tagType, errorCode,
                   antennaPower, versionString, ub>>
    /\ Gate

\* a sendCommand that leaves the packet buffer as it finds it
SL018_sendCommand_Stale(d, c) == d

\* void SL018::sendCommand(byte cmd): the packet it builds
SL018_sendCommand(d, c) == PutSeq(d, 0, <<1, c>>)

\* void selectTag() { sendCommand(CMD_SELECT); }
SL018_selectTag ==
    LET d == SL018_sendCommand(data, SL018_CMD_SELECT)
    IN  SL018_Send("selectTag", <<>>, d, d[1])

\* a seekTag that lets cmd be what transmitData recorded
SL018_seekTag_cmd_Select == SL018_CMD_SELECT

\* a seekTag that leaves the reader idle
SL018_seekTag_cmd_Idle == SL018_CMD_IDLE

\* the value seekTag leaves in cmd after selectTag() has returned
SL018_seekTag_cmd == SL018_CMD_SEEK

\* void seekTag() { selectTag(); cmd = CMD_SEEK; }
SL018_seekTag ==
    LET d == SL018_sendCommand(data, SL018_CMD_SELECT)
    IN  SL018_Send("seekTag", <<>>, d, SL018_seekTag_cmd)

\* void sleep() { sendCommand(CMD_SLEEP); }
SL018_sleep ==
    LET d == SL018_sendCommand(data, SL018_CMD_SLEEP)
    IN  SL018_Send("sleep", <<>>, d, d[1])

\* void SL018::authenticate(byte sector): transport key
SL018_authenticate1(d, sector) ==
    PutSeq(d, 0, <<9, SL018_CMD_LOGIN, sector, 170, 255, 255, 255, 255, 255, 255>>)

\* void SL018::authenticate(byte sector, byte keyType, byte key[6])
SL018_authenticate3(d, sector, keyType, key) ==
    PutSeq(d, 0, <<9, SL018_CMD_LOGIN, sector, keyType>> \o key)

\* void SL018::readBlock(byte block)
SL018_readBlock(d, block) == PutSeq(d, 0, <<2, SL018_CMD_READ16, block>>)

\* void SL018::readPage(byte page)
SL018_readPage(d, page) == PutSeq(d, 0, <<2, SL018_CMD_READ4, page>>)

\* void SL018::writeBlock(byte block, const char* message):
\* memcpy of 16 bytes to data + 3, then data[18] = 0
SL018_writeBlock(d, block, message) ==
    PutSeq(PutSeq(PutSeq(d, 0, <<18, SL018_CMD_WRITE16, block>>), 3, message),
           18, <<0>>)

\* void SL018::writePage(byte page, const char* message):
\* memcpy of 4 bytes to data + 3, then data[6] = 0
SL018_writePage(d, page, message) ==
    PutSeq(PutSeq(PutSeq(d, 0, <<6, SL018_CMD_WRITE4, page>>), 3, message),
           6, <<0>>)

\* void SL018::writeKey(byte sector, byte key[6])
SL018_writeKey(d, sector, key) ==
    PutSeq(d, 0, <<8, SL018_CMD_WRITE_KEY, sector>> \o key)

\* void SL018::led(boolean on)
SL018_led(d, on) == PutSeq(d, 0, <<2, SL018_CMD_SET_LED, IF on THEN 1 ELSE 0>>)

\* the calls of the member functions above, over the argument values
SL018_Command ==
    \/ \E b \in Blocks :
         LET d == SL018_authenticate1(data, b)
         IN  SL018_Send("authenticate", <<b>>, d, d[1])
    \/ \E b \in Blocks, kt \in KeyTypes, k \in Keys :
         LET d == SL018_authenticate3(data, b, kt, k)
         IN  SL018_Send("authenticate", <<b, kt, k>>, d, d[1])
    \/ \E b \in Blocks :
         LET d == SL018_readBlock(data, b)
         IN  SL018_Send("readBlock", <<b>>, d, d[1])
    \/ \E b \in Blocks :
         LET d == SL018_readPage(data, b)
         IN  SL018_Send("readPage", <<b>>, d, d[1])
    \/ \E b \in Blocks, m \in Messages16 :
         LET d == SL018_writeBlock(data, b, m)
         IN  SL018_Send("writeBlock", <<b, m>>, d, d[1])
    \/ \E b \in Blocks, m \in Messages4 :
         LET d == SL018_writePage(data, b, m)
         IN  SL018_Send("writePage", <<b, m>>, d, d[1])
    \/ \E b \in Blocks, k \in Keys :
         LET d == SL018_writeKey(data, b, k)
         IN  SL018_Send("writeKey", <<b, k>>, d, d[1])
    \/ \E on \in BOOLEAN :
         LET d == SL018_led(data, on)
         IN  SL018_Send("led", <<on>>, d, d[1])

\* void haltTag() { cmd = CMD_IDLE; }
SL018_haltTag ==
    /\ variant = "SL018"
    /\ ret # "hangs"
    /\ OpsLeft
    /\ cmd' = SL018_CMD_IDLE
    /\ wire' = <<>>
    /\ op' = "haltTag"
    /\ args' = <<>>
    /\ req' = 0
    /\ rx' = <<>>
    /\ top' = -1
    /\ rcvd' = 0
    /\ ret' = "void"
    /\ nops' = nops + 1
    /\ UNCHANGED <<config, data, tagNumber, tagLength, tagString, tagType,
                   errorCode, antennaPower, versionString, ub>>
    /\ Gate

\* void SL018::reset(): a pulse on the reset pin, or sendCommand(CMD_RESET)
SL018_reset ==
    /\ variant = "SL018"
    /\ ret # "hangs"
    /\ OpsLeft
    /\ IF pinRESET # PIN_NONE
         THEN /\ wire' = <<>>
              /\ UNCHANGED <<data, cmd>>
         ELSE LET d == SL018_sendCommand(data, SL018_CMD_RESET)
              IN  /\ data' = d
                  /\ cmd' = d[1]
                  /\ wire' = <<SL018_transmitData(d)>>
    /\ op' = "reset"
    /\ args' = <<>>
    /\ req' = 0
    /\ rx' = <<>>
    /\ top' = -1
    /\ rcvd' = 0
    /\ ret' = "void"
    /\ nops' = nops + 1
    /\ UNCHANGED <<config, tagNumber, tagLength, tagString, tagType, errorCode,
                   antennaPower, versionString, ub>>
    /\ Gate

---------------------------------------------------------------------------
(* SL018: polling for a response.                                          *)

\* a switch(cmd) without the cases CMD_IDLE and CMD_RESET
SL018_available_len_NoIdle(c) ==
    CASE c \in {SL018_CMD_LOGIN, SL018_CMD_SET_LED, SL018_CMD_SLEEP} -> 3
      [] c \in {SL018_CMD_SEEK, SL018_CMD_SELECT} -> 11
      [] OTHER -> SL018_SIZE_PACKET

\* the switch(cmd) at the head of SL018::available: the maximum length of
\* the expected response packet
SL018_available_len(c) ==
    CASE c \in {SL018_CMD_IDLE, SL018_CMD_RESET} -> 0
      [] c \in {SL018_CMD_LOGIN, SL018_CMD_SET_LED, SL018_CMD_SLEEP} -> 3
      [] c \in {SL018_CMD_READ4, SL018_CMD_WRITE4, SL018_CMD_READ_VALUE,
                SL018_CMD_WRITE_VALUE, SL018_CMD_DEC_VALUE, SL018_CMD_INC_VALUE,
                SL018_CMD_COPY_VALUE} -> 7
      [] c = SL018_CMD_WRITE_KEY -> 9
      [] c \in {SL018_CMD_SEEK, SL018_CMD_SELECT} -> 11
      [] OTHER -> SL018_SIZE_PACKET

\* a frame of the SL018: length byte L, command echo c, status s, then (from
\* offset 3) the payload, whose last byte (offset L) is the tag type ty
SL018_Frame(L, c, s, ty) ==
    [k \in 1..(L + 1) |->
        CASE k = 1 -> L
          [] k = 2 -> c
          [] k = 3 -> s
          [] k > 3 /\ k = L + 1 -> ty
          [] OTHER -> IdByte(k - 1)]

\* the command code the SL018 echoes for the command last sent
SL018_Echo(c) == IF c = SL018_CMD_SEEK THEN SL018_CMD_SELECT ELSE c

\* frames the device may answer with while command c is pending: status
\* frames, tag records with a 4-, 5-, 7- and 15-byte id, frames with a length
\* byte of 0 and 1, frames longer than the packet buffer, and frames that
\* echo another command than the pending one
SL018_Frames(c) ==
    {SL018_Frame(L, SL018_Echo(c), 0, 1) : L \in {0, 1, 255}}
    \cup {SL018_Frame(L, e, s, 1) :
            L \in {2, 7}, e \in {SL018_Echo(c), SL018_CMD_LOGIN},
            s \in {SL018_OK, SL018_NO_TAG}}
    \cup {SL018_Frame(L, SL018_Echo(c), SL018_OK, 1) : L \in {8, 10, 18}}
    \cup {SL018_Frame(L, SL018_Echo(c), s, 1) :
            L \in {19, 60}, s \in {SL018_OK, SL018_NO_TAG}}

\* what a bus read of n bytes may deliver: nothing, or n bytes of a frame
SL018_Responses(c, n) ==
    {<<>>} \cup {Deliver(f, n) : f \in SL018_Frames(c)}

\* the values cmd takes, and the responses to each, tabulated
SL018_Pending ==
    {SL018_CMD_IDLE, SL018_CMD_SELECT, SL018_CMD_LOGIN, SL018_CMD_READ16,
     SL018_CMD_WRITE16, SL018_CMD_WRITE_KEY, SL018_CMD_READ4, SL018_CMD_WRITE4,
     SL018_CMD_SEEK, SL018_CMD_SET_LED, SL018_CMD_SLEEP, SL018_CMD_RESET}

SL018_ResponseTable ==
    [c \in SL018_Pending |-> SL018_Responses(c, SL018_available_len(c))]

\* byte SL018::receiveData(byte length), given the bytes r the bus delivers:
\* the packet buffer afterwards, the value returned, the highest index
\* stored to, and whether the loop ends (its counter is a byte, so with a
\* length byte of 255 the test i <= data[0] never fails)
SL018_receiveData(d, r) ==
    IF Len(r) = 0
      THEN [data |-> d, n |-> 0, top |-> -1, ends |-> TRUE]
      ELSE LET L == r[1]
           IN  [data |-> [i \in DOMAIN d |->
                            IF i = 0 THEN L
                            ELSE IF i <= L
                              THEN (IF i < Len(r) THEN r[i + 1] ELSE WIRE_EMPTY)
                              ELSE d[i]],
                n |-> L, top |-> L, ends |-> L < 255]

\* offset from data[0] of the member cmd: data[19], tagNumber[7], tagLength,
\* tagString[15], tagType, errorCode come before it
SL018_OFFSET_cmd == 19 + 7 + 1 + 15 + 1 + 1

\* Stores past data[18] are undefined behaviour.  Two outcomes are modelled:
\* "stray", the bytes land outside the members of the object, and
\* "adjacent", they land on the members declared after data.
Layouts == {"stray", "adjacent"}

\* tagNumber after receiveData stored up to index top of data
SL018_clobber_tagNumber(tn, top_, lay) ==
    IF lay = "adjacent"
      THEN [k \in DOMAIN tn |->
              IF SL018_SIZE_PACKET + k <= top_ THEN WIRE_EMPTY ELSE tn[k]]
      ELSE tn

\* cmd after receiveData stored up to index top of data
SL018_clobber_cmd(c, top_, lay) ==
    IF lay = "adjacent" /\ top_ >= SL018_OFFSET_cmd THEN WIRE_EMPTY ELSE c

\* the test that guards tag extraction in SL018::available
SL018_hasTag(err, L) == err = 0 /\ L >= 7

\* a tagLength that counts the tag type byte as part of the id
SL018_tagLength_WithType(L) == L - 2

\* tagLength = getPacketLength() - 3
SL018_tagLength(L) == L - 3

\* boolean SL018::available(), given the bytes r the bus read delivers
SL018_Process(len, r, lay) ==
    \E rcv \in {SL018_receiveData(data, r)} :
    LET d1  == rcv.data
        L   == rcv.n
        c1  == SL018_clobber_cmd(cmd, rcv.top, lay)
        tn1 == SL018_clobber_tagNumber(tagNumber, rcv.top, lay)
        err == ToChar(d1[2])
        tl  == SL018_tagLength(L)
        id  == Slice(d1, 3, tl, WIRE_EMPTY)
    IN  /\ req' = len
        /\ rx' = r
        /\ top' = rcv.top
        /\ rcvd' = rcv.n
        /\ IF ~rcv.ends
             THEN \* receiveData never returns
                  /\ data' = d1
                  /\ ret' = "hangs"
                  /\ ub' = TRUE
                  /\ wire' = <<>>
                  /\ UNCHANGED <<tagNumber, tagLength, tagString, tagType,
                                 errorCode, cmd>>
             ELSE IF L = 0
             THEN \* no data available
                  /\ ret' = "false"
                  /\ data' = d1
                  /\ wire' = <<>>
                  /\ UNCHANGED <<tagNumber, tagLength, tagString, tagType,
                                 errorCode, cmd, ub>>
             ELSE IF c1 \in {SL018_CMD_SEEK, SL018_CMD_SELECT} /\ SL018_hasTag(err, L)
             THEN \* tag number extracted
                  /\ ret' = "true"
                  /\ data' = d1
                  /\ errorCode' = err
                  /\ tagLength' = tl
                  /\ tagType' = IF L \in DOMAIN d1 THEN d1[L] ELSE WIRE_EMPTY
                  /\ tagNumber' = [k \in DOMAIN tn1 |->
                                     IF k < tl THEN id[k + 1] ELSE tn1[k]]
                  /\ tagString' = arrayToHex(id)
                  /\ ub' = (ub \/ rcv.top >= SL018_SIZE_PACKET
                               \/ tl > SIZE_TAGNUMBER
                               \/ 2 * tl + 1 > SIZE_TAGSTRING)
                  /\ cmd' = c1
                  /\ wire' = <<>>
             ELSE /\ errorCode' = err
                  /\ tagLength' = 0
                  /\ tagType' = 0
                  /\ tagString' = <<>>
                  /\ tagNumber' = tn1
                  /\ ub' = (ub \/ rcv.top >= SL018_SIZE_PACKET)
                  /\ IF c1 \in {SL018_CMD_SEEK, SL018_CMD_SELECT} /\ c1 = SL018_CMD_SEEK
                       THEN \* continue seek: seekTag(); return false
                            LET d2 == SL018_sendCommand(d1, SL018_CMD_SELECT)
                            IN  /\ data' = d2
                                /\ wire' = <<SL018_transmitData(d2)>>
                                /\ cmd' = SL018_seekTag_cmd
                                /\ ret' = "false"
                       ELSE /\ data' = d1
                            /\ wire' = <<>>
                            /\ cmd' = c1
                            /\ ret' = "true"

\* available() with the reader answering from table: per command sent, the
\* byte sequences the reader may hold for the next read
SL018_availableOn(table) ==
    /\ variant = "SL018"
    /\ ret # "hangs"
    /\ OpsLeft
    /\ op' = "available"
    /\ args' = <<>>
    /\ nops' = nops + 1
    /\ UNCHANGED <<config, antennaPower, versionString>>
    /\ LET len == SL018_available_len(cmd)
       IN  IF len = 0
             THEN /\ req' = 0
                  /\ rx' = <<>>
                  /\ top' = -1
                  /\ rcvd' = 0
                  /\ wire' = <<>>
                  /\ ret' = "false"
                  /\ UNCHANGED <<data, tagNumber, tagLength, tagString, tagType,
                                 errorCode, cmd, ub>>
             ELSE \E r \in table[cmd] :
                    \E lay \in (IF Len(r) > 0 /\ r[1] >= SL018_SIZE_PACKET
                                  THEN Layouts ELSE {"stray"}) :
                       SL018_Process(len, r, lay)
    /\ Gate

\* boolean SL018::available(), over the responses of the device
SL018_available == SL018_availableOn(SL018_ResponseTable)

---------------------------------------------------------------------------
(* SM130: sending commands.                                                *)

\* a transmitData whose checksum leaves out the length byte
SM130_transmitData_SumFromCommand(d) ==
    LET body == Slice(d, 0, d[0] + 1, 0)
    IN  Append(body, SumBytes(Tail(body)))

\* the bytes SM130::transmitData writes: data[i] for i < data[0] + 1, then
\* their sum, accumulated in a byte
SM130_transmitData(d) ==
    LET body == Slice(d, 0, d[0] + 1, 0)
    IN  Append(body, SumBytes(body))

\* void SM130::sendCommand(byte cmd): the packet it builds
SM130_sendCommand(d, c) == PutSeq(d, 0, <<1, c>>)

\* void SM130::setAntennaPower(byte level): the packet it builds
SM130_setAntennaPower(d, level) ==
    PutSeq(d, 0, <<2, SM130_CMD_ANTENNA_POWER, level>>)

\* void SM130::authenticate(byte block): transport key
SM130_authenticate1(d, block) ==
    PutSeq(d, 0, <<3, SM130_CMD_AUTHENTICATE, block, 255>>)

\* void SM130::authenticate(byte block, byte keyType, byte key[6])
SM130_authenticate3(d, block, keyType, key) ==
    PutSeq(d, 0, <<9, SM130_CMD_AUTHENTICATE, block, keyType>> \o key)

\* void SM130::readBlock(byte block)
SM130_readBlock(d, block) == PutSeq(d, 0, <<2, SM130_CMD_READ16, block>>)

\* void SM130::writeBlock(byte block, const char* message):
\* strncpy of 15 bytes to data + 3, then data[18] = 0
SM130_writeBlock(d, block, message) ==
    PutSeq(PutSeq(PutSeq(d, 0, <<18, SM130_CMD_WRITE16, block>>),
                  3, Strncpy(message, 15)),
           18, <<0>>)

\* void SM130::writeFourByteBlock(byte block, const char* message):
\* strncpy of 3 bytes to data + 3, then data[6] = 0
SM130_writeFourByteBlock(d, block, message) ==
    PutSeq(PutSeq(PutSeq(d, 0, <<6, SM130_CMD_WRITE4, block>>),
                  3, Strncpy(message, 3)),
           6, <<0>>)

\* a member function that fills data with d and calls transmitData once;
\* ap is the value of antennaPower when the function returns
SM130_Send(name, a, d, ap) ==
    /\ variant = "SM130"
    /\ OpsLeft
    /\ data' = d
    /\ cmd' = d[1]
    /\ antennaPower' = ap
    /\ wire' = <<SM130_transmitData(d)>>
    /\ op' = name
    /\ args' = a
    /\ req' = 0
    /\ rx' = <<>>
    /\ top' = -1
    /\ rcvd' = 0
    /\ ret' = "void"
    /\ nops' = nops + 1
    /\ UNCHANGED <<config, tagNumber, tagLength, tagString, tagType, errorCode,
                   versionString, ub>>
    /\ Gate

\* void seekTag() { sendCommand(CMD_SEEK_TAG); }
SM130_seekTag ==
    SM130_Send("seekTag", <<>>, SM130_sendCommand(data, SM130_CMD_SEEK_TAG),
               antennaPower)

\* void selectTag() { sendCommand(CMD_SELECT_TAG); }
SM130_selectTag ==
    SM130_Send("selectTag", <<>>, SM130_sendCommand(data, SM130_CMD_SELECT_TAG),
               antennaPower)

\* a haltTag that sends CMD_SLEEP
SM130_haltTag_Sleep ==
    SM130_Send("haltTag", <<>>, SM130_sendCommand(data, SM130_CMD_SLEEP),
               antennaPower)

\* void haltTag() { sendCommand(CMD_HALT_TAG); }
SM130_haltTag ==
    SM130_Send("haltTag", <<>>, SM130_sendCommand(data, SM130_CMD_HALT_TAG),
               antennaPower)

\* void sleep() { sendCommand(CMD_SLEEP); }
SM130_sleep ==
    SM130_Send("sleep", <<>>, SM130_sendCommand(data, SM130_CMD_SLEEP),
               antennaPower)

\* the calls of the member functions with arguments, over the argument values
SM130_Command ==
    \/ \E level \in {0, 1} :
         SM130_Send("setAntennaPower", <<level>>,
                    SM130_setAntennaPower(data, level), level)
    \/ \E b \in Blocks :
         SM130_Send("authenticate", <<b>>, SM130_authenticate1(data, b),
                    antennaPower)
    \/ \E b \in Blocks, kt \in KeyTypes, k \in Keys :
         SM130_Send("authenticate", <<b, kt, k>>,
                    SM130_authenticate3(data, b, kt, k), antennaPower)
    \/ \E b \in Blocks :
         SM130_Send("readBlock", <<b>>, SM130_readBlock(data, b), antennaPower)
    \/ \E b \in Blocks, m \in Strings :
         SM130_Send("writeBlock", <<b, m>>, SM130_writeBlock(data, b, m),
                    antennaPower)
    \/ \E b \in Blocks, m \in Strings :
         SM130_Send("writeFourByteBlock", <<b, m>>,
                    SM130_writeFourByteBlock(data, b, m), antennaPower)

\* a reset() that halts first and sets the antenna power last
SM130_reset_tail_HaltFirst(d) ==
    LET d2 == SM130_sendCommand(d, SM130_CMD_HALT_TAG)
    IN  <<d2, SM130_setAntennaPower(d2, 1)>>

\* the end of SM130::reset(): setAntennaPower(1); haltTag(); as the packet
\* buffer after each of the two, starting from d
SM130_reset_tail(d) ==
    LET d2 == SM130_setAntennaPower(d, 1)
    IN  <<d2, SM130_sendCommand(d2, SM130_CMD_HALT_TAG)>>

\* void SM130::reset(): a pulse on the reset pin or sendCommand(CMD_RESET),
\* then setAntennaPower(1), then haltTag()
SM130_reset ==
    LET d1 == IF pinRESET # PIN_NONE THEN data
              ELSE SM130_sendCommand(data, SM130_CMD_RESET)
        w1 == IF pinRESET # PIN_NONE THEN <<>> ELSE <<SM130_transmitData(d1)>>
        d2 == SM130_reset_tail(d1)[1]
        d3 == SM130_reset_tail(d1)[2]
    IN  /\ variant = "SM130"
        /\ OpsLeft
        /\ data' = d3
        /\ cmd' = d3[1]
        /\ antennaPower' = 1
        /\ wire' = w1 \o <<SM130_transmitData(d2), SM130_transmitData(d3)>>
        /\ op' = "reset"
        /\ args' = <<>>
        /\ req' = 0
        /\ rx' = <<>>
        /\ top' = -1
        /\ rcvd' = 0
        /\ ret' = "void"
        /\ nops' = nops + 1
        /\ UNCHANGED <<config, tagNumber, tagLength, tagString, tagType,
                       errorCode, versionString, ub>>
        /\ Gate

---------------------------------------------------------------------------
(* SM130: polling for a response.                                          *)

\* the switch(cmd) in SM130::available: the maximum length of the expected
\* response packet.  The case of CMD_WRITE4, CMD_WRITE_VALUE and
\* CMD_READ_VALUE assigns 8 and, having no break, runs on into the
\* assignment of 11 for CMD_SEEK_TAG and CMD_SELECT_TAG.
SM130_available_len(c) ==
    CASE c \in {SM130_CMD_ANTENNA_POWER, SM130_CMD_AUTHENTICATE,
                SM130_CMD_DEC_VALUE, SM130_CMD_INC_VALUE, SM130_CMD_WRITE_KEY,
                SM130_CMD_HALT_TAG, SM130_CMD_SLEEP} -> 4
      [] c \in {SM130_CMD_WRITE4, SM130_CMD_WRITE_VALUE, SM130_CMD_READ_VALUE,
                SM130_CMD_SEEK_TAG, SM130_CMD_SELECT_TAG} -> 11
      [] OTHER -> SM130_SIZE_PACKET

\* a frame of the SM130: length byte L, command echo c, status or tag type
\* s, payload up to offset L, then the checksum (off by one if ~good)
SM130_Frame(L, c, s, good) ==
    LET body == [k \in 1..(L + 1) |->
                    CASE k = 1 -> L
                      [] k = 2 -> c
                      [] k = 3 -> s
                      [] OTHER -> IdByte(k - 1)]
    IN  Append(body, (SumBytes(body) + (IF good THEN 0 ELSE 1)) % 256)

\* frames the device may answer with while command c is pending: status
\* frames, tag records with a 4-, 6-, 7- and 16-byte id, frames with a length
\* byte of 0 and of more than SIZE_PAYLOAD, frames that echo another command
\* than the pending one, and frames with a wrong checksum
SM130_Frames(c) ==
    {SM130_Frame(L, c, 1, TRUE) : L \in {0, 19}}
    \cup {SM130_Frame(2, e, s, TRUE) :
            e \in {c, SM130_CMD_VERSION, SM130_CMD_SEEK_TAG},
            s \in {SM130_NO_TAG, 1}}
    \cup {SM130_Frame(L, e, 1, TRUE) :
            L \in {6, 8, 9, 18},
            e \in {c, SM130_CMD_VERSION, SM130_CMD_SEEK_TAG}}
    \cup {SM130_Frame(L, c, 1, FALSE) : L \in {2, 6, 18}}

\* what a bus read of n bytes may deliver: nothing, n bytes of a frame, or
\* a tag record cut off before its checksum
SM130_Responses(c, n) ==
    {<<>>}
    \cup {Deliver(f, n) : f \in SM130_Frames(c)}
    \cup {Deliver(SM130_Frame(6, c, 1, TRUE), k) : k \in {7} \cap 1..n}

\* the values cmd takes, and the responses to each, tabulated
SM130_Pending ==
    {0, SM130_CMD_RESET, SM130_CMD_SEEK_TAG, SM130_CMD_SELECT_TAG,
     SM130_CMD_AUTHENTICATE, SM130_CMD_READ16, SM130_CMD_WRITE16,
     SM130_CMD_WRITE4, SM130_CMD_ANTENNA_POWER, SM130_CMD_HALT_TAG,
     SM130_CMD_SLEEP}

SM130_ResponseTable ==
    [c \in SM130_Pending |-> SM130_Responses(c, SM130_available_len(c))]

\* the value a byte function returns for "return -1"
BYTE_MINUS_1 == 255

\* a checksum test that accepts every packet
SM130_checksumOK_Any(d) == TRUE

\* the checksum test of SM130::receiveData on the packet buffer d
SM130_checksumOK(d) ==
    SumBytes(Slice(d, 0, d[0] + 1, 0)) = d[d[0] + 1]

\* byte SM130::receiveData(byte length), given the bytes r the bus delivers:
\* the packet buffer afterwards, the value returned and the highest index
\* stored to
SM130_receiveData(d, r) ==
    IF Len(r) = 0
      THEN [data |-> d, n |-> 0, top |-> -1]
      ELSE LET d1 == PutSeq(d, 0, r)
           IN  [data |-> d1,
                n |-> IF d1[0] > 0 /\ d1[0] <= SM130_SIZE_PAYLOAD
                        THEN (IF SM130_checksumOK(d1) THEN d1[0] ELSE BYTE_MINUS_1)
                        ELSE 0,
                top |-> Len(r) - 1]

\* a test that lets available() process the packet buffer whatever
\* receiveData returned
SM130_validData_Always(n) == TRUE

\* the test "receiveData(len) > 0" of SM130::available on the byte returned
SM130_validData(n) == n > 0

\* an errorCode that is data[2] whatever the packet length
SM130_errorCode_Always(d) == ToChar(d[2])

\* errorCode = getPacketLength() < 3 ? data[2] : 0
SM130_errorCode(d) == IF d[0] < 3 THEN ToChar(d[2]) ELSE 0

\* the test that guards tag extraction in SM130::available
SM130_hasTag(err, L) == err = 0 /\ L >= 6

\* tagLength = getPacketLength() - 2
SM130_tagLength(L) == L - 2

\* a copy that takes min(getPacketLength(), sizeof(versionString)) bytes
SM130_versionString_OneMore(vs, d) ==
    LET n == Min(d[0], SIZE_VERSIONSTRING)
    IN  PutSeq(PutSeq(vs, 0, Slice(d, 2, n, 0)), n, <<0>>)

\* len = min(getPacketLength(), sizeof(versionString)) - 1;
\* memcpy(versionString, data + 2, len); versionString[len] = 0
SM130_versionString(vs, d) ==
    LET n == Min(d[0], SIZE_VERSIONSTRING) - 1
    IN  PutSeq(PutSeq(vs, 0, Slice(d, 2, n, 0)), n, <<0>>)

\* an available() without the case CMD_SLEEP
SM130_available_ret_NoSleep(e) == "true"

\* what SM130::available returns after the switch on getCommand(): false in
\* the case CMD_SLEEP, "If in SLEEP mode, no data is available"
SM130_available_ret(e) == IF e = SM130_CMD_SLEEP THEN "false" ELSE "true"

\* boolean SM130::available() once DREADY allows a bus read, given the
\* bytes r the bus read delivers
SM130_Process(len, r) ==
    \E rcv \in {SM130_receiveData(data, r)} :
    LET d1  == rcv.data
        L   == d1[0]
        e   == d1[1]
        err == SM130_errorCode(d1)
        tl  == SM130_tagLength(L)
        id  == Slice(d1, 3, tl, 0)
    IN  /\ req' = len
        /\ rx' = r
        /\ top' = rcv.top
        /\ rcvd' = rcv.n
        /\ data' = d1
        /\ wire' = <<>>
        /\ UNCHANGED cmd
        /\ IF ~SM130_validData(rcv.n)
             THEN \* no data available
                  /\ ret' = "false"
                  /\ UNCHANGED <<tagNumber, tagLength, tagString, tagType,
                                 errorCode, antennaPower, versionString, ub>>
             ELSE /\ ret' = SM130_available_ret(e)
                  /\ versionString' =
                        IF e \in {SM130_CMD_RESET, SM130_CMD_VERSION}
                          THEN SM130_versionString(versionString, d1)
                          ELSE versionString
                  /\ antennaPower' =
                        IF e = SM130_CMD_ANTENNA_POWER THEN d1[2] ELSE antennaPower
                  /\ IF e \in {SM130_CMD_SEEK_TAG, SM130_CMD_SELECT_TAG}
                        /\ SM130_hasTag(err, L)
                       THEN /\ errorCode' = err
                            /\ tagLength' = tl
                            /\ tagType' = d1[2]
                            /\ tagNumber' = [k \in DOMAIN tagNumber |->
                                               IF k < tl THEN id[k + 1]
                                                         ELSE tagNumber[k]]
                            /\ tagString' = arrayToHex(id)
                            /\ ub' = (ub \/ tl > SIZE_TAGNUMBER
                                         \/ 2 * tl + 1 > SIZE_TAGSTRING)
                       ELSE /\ errorCode' =
                                 IF e = SM130_CMD_ANTENNA_POWER THEN 0 ELSE err
                            /\ tagLength' = 0
                            /\ tagType' = 0
                            /\ tagString' = <<>>
                            /\ UNCHANGED <<tagNumber, ub>>

\* boolean SM130::available(): in SEEK mode with a DREADY pin the pin is
\* read first, and a low level returns false at once
SM130_availableOn(table) ==
    /\ variant = "SM130"
    /\ OpsLeft
    /\ op' = "available"
    /\ args' = <<>>
    /\ nops' = nops + 1
    /\ UNCHANGED config
    /\ IF cmd = SM130_CMD_SEEK_TAG /\ pinDREADY # PIN_NONE /\ ~dready
           THEN /\ req' = 0
                /\ rx' = <<>>
                /\ top' = -1
                /\ rcvd' = 0
                /\ wire' = <<>>
                /\ ret' = "false"
                /\ UNCHANGED object
           ELSE LET len == SM130_available_len(cmd)
                IN  \E r \in table[cmd] : SM130_Process(len, r)
    /\ Gate

\* boolean SM130::available(), over the responses of the device
SM130_available == SM130_availableOn(SM130_ResponseTable)

---------------------------------------------------------------------------
(* The reader object after construction, and the specification.            *)

\* pinRESET and pinDREADY as setup() leaves them: the RFIDuino wiring, or
\* no pins (reset and polling over I2C)
PinSettings == {<<3, 4>>, <<PIN_NONE, PIN_NONE>>}

\* #define SIZE_PACKET of the class
SIZE_PACKET(v) == IF v = "SL018" THEN SL018_SIZE_PACKET ELSE SM130_SIZE_PACKET

\* a global object: zero-initialised storage, then the constructor
Construct ==
    /\ variant \in {"SL018", "SM130"}
    /\ \E pins \in PinSettings : pinRESET = pins[1] /\ pinDREADY = pins[2]
    /\ data = [i \in 0..(SIZE_PACKET(variant) - 1) |-> 0]
    /\ tagNumber = [i \in 0..(SIZE_TAGNUMBER - 1) |-> 0]
    /\ tagLength = 0
    /\ tagString = <<>>
    /\ tagType = 0
    /\ errorCode = 0
    /\ antennaPower = 0
    /\ versionString = [i \in 0..(SIZE_VERSIONSTRING - 1) |-> 0]
    /\ cmd = 0
    /\ ub = FALSE
    /\ op = "constructor"
    /\ wire = <<>>
    /\ req = 0
    /\ rx = <<>>
    /\ top = -1
    /\ rcvd = 0
    /\ ret = "void"
    /\ nops = 0
    /\ dready = TRUE
    /\ pulse = <<>>

\* one reader object; time is not followed
Untimed ==
    /\ timed = FALSE
    /\ millis0 = <<0, 0>>
    /\ now = 0
    /\ t = <<0, CTOR_MS>>
    /\ ownEnd = <<>>
    /\ busEnd = <<>>
    /\ gate = NoGate
    /\ cur = 1
    /\ other = <<>>

Init ==
    /\ Construct
    /\ args = <<>>
    /\ Untimed
    /\ sketch = NoSketch

Next ==
    \/ SL018_seekTag
    \/ SL018_selectTag
    \/ SL018_haltTag
    \/ SL018_sleep
    \/ SL018_Command
    \/ SL018_reset
    \/ SL018_available
    \/ SM130_seekTag
    \/ SM130_selectTag
    \/ SM130_haltTag
    \/ SM130_sleep
    \/ SM130_Command
    \/ SM130_reset
    \/ SM130_available

Spec == Init /\ [][Next]_vars

---------------------------------------------------------------------------
(* SM130: what transmitData writes, read back by receiveData.              *)

\* byte b with bit k inverted
FlipBit(b, k) == IF (b \div 2^k) % 2 = 1 THEN b - 2^k ELSE b + 2^k

\* the bytes of the frame written last, as they are or with one bit of one
\* byte inverted, come back on the bus and SM130::receiveData reads them;
\* args records the byte (1: the length byte) and the bit inverted
SM130_Loopback ==
    /\ variant = "SM130"
    /\ wire # <<>>
    /\ op # "loopback"
    /\ LET f == wire[Len(wire)]
       IN  \E flip \in {<<>>} \cup ((1..Len(f)) \X (0..7)) :
             \E r \in {IF flip = <<>> THEN f
                        ELSE [f EXCEPT ![flip[1]] = FlipBit(f[flip[1]], flip[2])]} :
               \E rcv \in {SM130_receiveData(data, r)} :
                 /\ data' = rcv.data
                 /\ rcvd' = rcv.n
                 /\ top' = rcv.top
                 /\ rx' = r
                 /\ req' = SM130_SIZE_PACKET
                 /\ args' = flip
    /\ op' = "loopback"
    /\ ret' = "void"
    /\ UNCHANGED <<config, tagNumber, tagLength, tagString, tagType, errorCode,
                   antennaPower, versionString, cmd, ub, wire, nops,
                   timing, cur, other, sketch, lines>>

\* a member function of the SM130 that transmits a packet
SM130_Transmit ==
    /\ nops < MaxFrames
    /\ op # "loopback"
    /\ \/ SM130_seekTag
       \/ SM130_selectTag
       \/ SM130_haltTag
       \/ SM130_sleep
       \/ SM130_Command
       \/ SM130_reset

InitRoundTrip == Init /\ variant = "SM130"

NextRoundTrip ==
    \/ SM130_Transmit
    \/ SM130_Loopback

SpecRoundTrip == InitRoundTrip /\ [][NextRoundTrip]_vars

---------------------------------------------------------------------------
(* Properties.                                                             *)

\* the member functions that build a packet and transmit it
CommandOps ==
    {"seekTag", "selectTag", "sleep", "haltTag", "authenticate", "readBlock",
     "readPage", "writeBlock", "writePage", "writeFourByteBlock", "writeKey",
     "led", "setAntennaPower", "reset"}

\* the number of bytes of frame f that follow its command byte, the SM130's
\* checksum byte not counted
ParamCount(f) == IF variant = "SM130" THEN Len(f) - 3 ELSE Len(f) - 2

\* C1: every frame a command-issuing member function of either class writes
\* to the bus has a first byte equal to 1 plus the number of parameter bytes
\* after the command byte, and is at most 19 bytes long on the SL018 and at
\* most 20 bytes (checksum included) on the SM130.
C1_FrameLength ==
    \A i \in 1..Len(wire) :
        /\ Len(wire[i]) >= 2
        /\ wire[i][1] = 1 + ParamCount(wire[i])
        /\ Len(wire[i]) <= SIZE_PACKET(variant)

\* C1 witness: SL018::writeBlock has written its frame of 19 bytes
C1_Witness ==
    /\ variant = "SL018"
    /\ op = "writeBlock"
    /\ Len(wire) = 1
    /\ Len(wire[1]) = SL018_SIZE_PACKET
    /\ wire[1][1] = 18


\* the fields available() derives from a response
derived == <<tagType, tagLength, tagNumber, tagString, errorCode,
             antennaPower, versionString>>

\* r holds an SM130 frame, complete with its checksum byte, whose checksum
\* byte is not the sum modulo 256 of the length byte through the last
\* payload byte
SM130_BadChecksum(r) ==
    /\ Len(r) >= 2
    /\ r[1] \in 1..SM130_SIZE_PAYLOAD
    /\ Len(r) >= r[1] + 2
    /\ r[r[1] + 2] # SumFirst(r, r[1] + 1)

\* C2: when SM130::available receives a frame with a wrong checksum, it
\* returns false and leaves tagType, tagLength, tagNumber, tagString,
\* errorCode, antennaPower and versionString as they were.
C2_BadChecksumIgnored ==
    [][(variant = "SM130" /\ op' = "available" /\ SM130_BadChecksum(rx'))
          => (ret' = "false" /\ UNCHANGED derived)]_vars

\* r is an SL018 response that fits the packet buffer and whose status byte
\* is "no tag"
SL018_NoTagResponse(r) ==
    /\ Len(r) >= 3
    /\ r[1] \in 2..(SL018_SIZE_PACKET - 1)
    /\ r[3] = SL018_NO_TAG

\* r is an SM130 response to CMD_SEEK_TAG with a correct checksum whose
\* status byte is 'N', "no tag present"
SM130_NoTagResponse(r) ==
    /\ Len(r) >= 4
    /\ r[1] = 2
    /\ r[2] = SM130_CMD_SEEK_TAG
    /\ r[3] = SM130_NO_TAG
    /\ r[4] = SumFirst(r, 3)

\* available() is called while a seek is pending, and the bus read delivers
\* a "no tag" response
SeekNoTag ==
    /\ op' = "available"
    /\ \/ variant = "SL018" /\ cmd = SL018_CMD_SEEK /\ SL018_NoTagResponse(rx')
       \/ variant = "SM130" /\ cmd = SM130_CMD_SEEK_TAG /\ SM130_NoTagResponse(rx')

\* C3 as stated: on either class, available() answers a "no tag" response to
\* a pending seek by writing exactly one frame, returning false and leaving
\* the seek pending.
C3_SeekContinuation_Both ==
    [][SeekNoTag =>
          /\ ret' = "false"
          /\ Len(wire') = 1
          /\ cmd' = cmd]_vars

\* C3: SL018::available answers a "no tag" response to a pending seek by
\* writing exactly one frame, <<1, CMD_SELECT>>, returning false and leaving
\* cmd = CMD_SEEK; SM130::available writes no frame, returns true with
\* errorCode = 'N' and no tag, and leaves cmd = CMD_SEEK_TAG.
C3_SeekContinuation ==
    [][SeekNoTag =>
          IF variant = "SL018"
            THEN /\ ret' = "false"
                 /\ wire' = <<(<<1, SL018_CMD_SELECT>>)>>
                 /\ cmd' = SL018_CMD_SEEK
            ELSE /\ ret' = "true"
                 /\ wire' = <<>>
                 /\ cmd' = SM130_CMD_SEEK_TAG
                 /\ errorCode' = SM130_NO_TAG
                 /\ tagLength' = 0]_vars

\* C3 witness: SL018::available has continued a seek after a "no tag"
\* response
C3_Witness ==
    /\ variant = "SL018"
    /\ op = "available"
    /\ SL018_NoTagResponse(rx)
    /\ cmd = SL018_CMD_SEEK
    /\ Len(wire) = 1
    /\ ret = "false"

\* C4: receiveData stores the bytes of a bus read only at indices
\* 0..SIZE_PACKET-1 of data, and takes no more bytes from the bus than
\* available() requested.
C4_StoresInBounds ==
    op = "available" =>
        /\ top <= SIZE_PACKET(variant) - 1
        /\ Len(rx) <= req

\* C5: tagLength is 0, 4 or 7, and no store has gone past the end of
\* tagNumber or tagString.
C5_TagLength ==
    /\ tagLength \in {0, 4, 7}
    /\ tagLength <= SIZE_TAGNUMBER
    /\ 2 * tagLength + 1 <= SIZE_TAGSTRING

\* the last frame written to the bus
LastFrame == wire[Len(wire)]

C8_LastCommand_All ==
    (op \in CommandOps /\ wire # <<>>) => cmd = LastFrame[2]

\* C8: after a command-issuing member function has returned, cmd is the
\* command byte of the (last) frame it wrote, except after SL018::seekTag,
\* which writes a CMD_SELECT frame and leaves cmd = CMD_SEEK.
C8_LastCommand ==
    (op \in CommandOps /\ wire # <<>>) =>
        IF variant = "SL018" /\ op = "seekTag"
          THEN cmd = SL018_CMD_SEEK /\ LastFrame[2] = SL018_CMD_SELECT
          ELSE cmd = LastFrame[2]

\* C8 witness: SL018::seekTag has returned
C8_Witness ==
    /\ variant = "SL018"
    /\ op = "seekTag"
    /\ wire = <<(<<1, SL018_CMD_SELECT>>)>>
    /\ cmd = SL018_CMD_SEEK

\* the length C9 states for class v and last command c
C9_Expected(v, c) ==
    IF v = "SL018"
      THEN CASE c \in {SL018_CMD_SEEK, SL018_CMD_SELECT} -> 11
             [] c \in {SL018_CMD_READ4, SL018_CMD_WRITE4, SL018_CMD_READ_VALUE,
                       SL018_CMD_WRITE_VALUE} -> 7
             [] c \in {SL018_CMD_LOGIN, SL018_CMD_SET_LED, SL018_CMD_SLEEP} -> 3
             [] c = SL018_CMD_WRITE_KEY -> 9
             [] OTHER -> 19
      ELSE CASE c \in {SM130_CMD_SEEK_TAG, SM130_CMD_SELECT_TAG} -> 11
             [] c \in {SM130_CMD_WRITE4, SM130_CMD_READ_VALUE,
                       SM130_CMD_WRITE_VALUE} -> 8
             [] c \in {SM130_CMD_ANTENNA_POWER, SM130_CMD_AUTHENTICATE,
                       SM130_CMD_HALT_TAG, SM130_CMD_SLEEP,
                       SM130_CMD_WRITE_KEY} -> 4
             [] OTHER -> 20

\* C9: the number of bytes available() requests from the bus is the one the
\* table gives for the last command: 11 for seek and select; 7 (SL018) or 8
\* (SM130) for 4-byte write, value read and value write; 3 or 4 for
\* acknowledgements; 9 for the SL018's key write; the packet size otherwise.
C9_RequestedLength ==
    [][(op' = "available" /\ req' > 0) => req' = C9_Expected(variant, cmd)]_vars

C6_RoundTrip ==
    op = "loopback" =>
        LET f == LastFrame
        IN  IF args = <<>>
              THEN /\ rcvd = f[1]
                   /\ \A i \in 1..(Len(f) - 1) : data[i - 1] = f[i]
              ELSE args[1] \in 2..(Len(f) - 1) => rcvd = BYTE_MINUS_1

\* C6 witness: the 20-byte frame of SM130::writeBlock has been read back with
\* a bit of its last parameter byte inverted, and receiveData returned -1
C6_Witness ==
    /\ op = "loopback"
    /\ Len(LastFrame) = SM130_SIZE_PACKET
    /\ args # <<>>
    /\ args[1] = SM130_SIZE_PACKET - 1
    /\ rcvd = BYTE_MINUS_1


\* C11: after reset() has returned, errorCode, tagType and tagLength are 0,
\* tagString is empty and the last issued command is not seek.
C11_ResetDefaults ==
    op = "reset" =>
        /\ errorCode = 0
        /\ tagType = 0
        /\ tagLength = 0
        /\ tagString = <<>>
        /\ cmd \notin {SL018_CMD_SEEK, SM130_CMD_SEEK_TAG}

---------------------------------------------------------------------------
(* Two reader objects on one bus, with the clock followed.                 *)

\* the fields of a reader object that has not been used since construction
Unused ==
    [data          |-> [i \in 0..(SIZE_PACKET(variant) - 1) |-> 0],
     tagNumber     |-> [i \in 0..(SIZE_TAGNUMBER - 1) |-> 0],
     tagLength     |-> 0,
     tagString     |-> <<>>,
     tagType       |-> 0,
     errorCode     |-> 0,
     antennaPower  |-> 0,
     versionString |-> [i \in 0..(SIZE_VERSIONSTRING - 1) |-> 0],
     cmd           |-> 0,
     ub            |-> FALSE,
     t             |-> <<0, CTOR_MS>>,
     ownEnd        |-> <<>>]

\* the moments at which a run is picked up: at the construction of the
\* global objects (millis() = 0), and 20 ms before millis() wraps around,
\* the current object having begun its last bus transaction 5 ms or 1000 ms
\* earlier
Starts ==
    {[millis0 |-> <<0, 0>>, t |-> <<0, CTOR_MS>>, ownEnd |-> <<>>],
     [millis0 |-> <<ULONG_LIMB - 1, ULONG_LIMB - 20>>,
      t       |-> <<ULONG_LIMB - 1, ULONG_LIMB - 20 - 5 + GATE_MS>>,
      ownEnd  |-> <<0 - 5>>],
     [millis0 |-> <<ULONG_LIMB - 1, ULONG_LIMB - 20>>,
      t       |-> <<ULONG_LIMB - 1, ULONG_LIMB - 20 - 1000 + GATE_MS>>,
      ownEnd  |-> <<0 - 1000>>]}

\* two objects of one class with the pins of the constructor
InitTiming ==
    /\ Construct
    /\ args = <<>>
    /\ pinRESET = (IF variant = "SL018" THEN PIN_NONE ELSE 3)
    /\ timed = TRUE
    /\ now = 0
    /\ \E s \in Starts :
         /\ millis0 = s.millis0
         /\ t = s.t
         /\ ownEnd = s.ownEnd
         /\ busEnd = s.ownEnd
    /\ other = Unused
    /\ cur = 1
    /\ gate = NoGate
    /\ sketch = NoSketch

\* the caller turns to the other reader object
SwitchReader ==
    /\ timed
    /\ ret # "hangs"
    /\ op # "switch"
    /\ cur' = 3 - cur
    /\ other' = [data |-> data, tagNumber |-> tagNumber, tagLength |-> tagLength,
                 tagString |-> tagString, tagType |-> tagType,
                 errorCode |-> errorCode, antennaPower |-> antennaPower,
                 versionString |-> versionString, cmd |-> cmd, ub |-> ub,
                 t |-> t, ownEnd |-> ownEnd]
    /\ data' = other.data
    /\ tagNumber' = other.tagNumber
    /\ tagLength' = other.tagLength
    /\ tagString' = other.tagString
    /\ tagType' = other.tagType
    /\ errorCode' = other.errorCode
    /\ antennaPower' = other.antennaPower
    /\ versionString' = other.versionString
    /\ cmd' = other.cmd
    /\ ub' = other.ub
    /\ t' = other.t
    /\ ownEnd' = other.ownEnd
    /\ op' = "switch"
    /\ args' = <<>>
    /\ wire' = <<>>
    /\ req' = 0
    /\ rx' = <<>>
    /\ top' = -1
    /\ rcvd' = 0
    /\ ret' = "void"
    /\ gate' = NoGate
    /\ dready' \in Levels(other.cmd)
    /\ UNCHANGED <<config, nops, now, busEnd, sketch, pulse>>

\* the caller resets, seeks, polls and halts, on either object
NextTiming ==
    \/ SL018_reset
    \/ SL018_seekTag
    \/ SL018_available
    \/ SL018_haltTag
    \/ SM130_reset
    \/ SM130_seekTag
    \/ SM130_available
    \/ SM130_haltTag
    \/ SwitchReader

SpecTiming == InitTiming /\ [][NextTiming]_vars

---------------------------------------------------------------------------
(* The gate in front of the bus transactions.                              *)

\* C12: every bus transaction of a reader object begins at least 20 ms
\* after the end of the previous bus transaction of that object.
C12_GapAfterEnd ==
    \A i \in 1..Len(gate.gaps) : gate.gaps[i] >= GATE_MS

\* C13: with two reader objects on one bus, every bus transaction begins at
\* least 20 ms after the end of the previous transaction on the bus,
\* whichever object made it.
C13_BusGap ==
    \A i \in 1..Len(gate.busGaps) : gate.busGaps[i] >= GATE_MS

\* C14: no wait in front of a bus transaction lasts longer than 20 ms,
\* whatever the value of the millisecond clock.
C14_WaitBounded ==
    \A i \in 1..Len(gate.waits) : gate.waits[i] <= GATE_MS

---------------------------------------------------------------------------
(* Seek from end to end, and the fields taken from a tag record.           *)

\* "AABBCCDD"
AABBCCDD == <<65, 65, 66, 66, 67, 67, 68, 68>>

\* the record of a tag of type 1 with the id AA BB CC DD as each device
\* frames it, and as a bus read of n bytes delivers it
TagRecord(n) ==
    IF variant = "SL018"
      THEN Deliver(SL018_Frame(7, SL018_CMD_SELECT, SL018_OK, 1), n)
      ELSE Deliver(SM130_Frame(6, SM130_CMD_SEEK_TAG, 1, TRUE), n)

\* the same with a length byte of 8
TagRecord8(n) ==
    IF variant = "SL018"
      THEN Deliver(SL018_Frame(8, SL018_CMD_SELECT, SL018_OK, 1), n)
      ELSE Deliver(SM130_Frame(8, SM130_CMD_SEEK_TAG, 1, TRUE), n)

\* seekTag() was the first call, the available() after it has read a
\* "no tag" response, and available() is called again: the state is that
\* after the first available(), the step is the second available()
SeekNoTagThenPoll ==
    /\ nops = 2
    /\ op = "available"
    /\ \/ variant = "SL018" /\ cmd = SL018_CMD_SEEK /\ SL018_NoTagResponse(rx)
       \/ variant = "SM130" /\ cmd = SM130_CMD_SEEK_TAG /\ SM130_NoTagResponse(rx)
    /\ op' = "available"

TagResponse ==
    /\ op' = "available"
    /\ Len(rx') >= 3
    /\ IF variant = "SL018"
         THEN /\ cmd \in {SL018_CMD_SEEK, SL018_CMD_SELECT}
              /\ rx'[1] \in 7..(SL018_SIZE_PACKET - 1)
              /\ rx'[3] = SL018_OK
              /\ Len(rx') >= rx'[1] + 1
         ELSE /\ rcvd' \in 1..SM130_SIZE_PAYLOAD
              /\ rx'[2] \in {SM130_CMD_SEEK_TAG, SM130_CMD_SELECT_TAG}
              /\ rx'[1] >= 6
              /\ Len(rx') >= rx'[1] + 2

\* the fixed part of a tag record: length, command and status byte on the
\* SL018 (the type byte comes last), command and type byte on the SM130
\* (the length byte does not count itself)
HeaderSize == IF variant = "SL018" THEN 3 ELSE 2

\* C18: for a successful seek/select response, tagLength is the length byte
\* minus the header size, tagNumber holds exactly those id bytes of the
\* response in order, tagType is the tag type byte of the response, and
\* tagString is the hex string of tagNumber.
C18_TagFields ==
    [][TagResponse =>
          /\ tagLength' = rx'[1] - HeaderSize
          /\ tagType' = (IF variant = "SL018" THEN rx'[rx'[1] + 1] ELSE rx'[3])
          /\ tagLength' <= SIZE_TAGNUMBER
          /\ \A k \in 0..(tagLength' - 1) :
                k \in DOMAIN tagNumber' /\ tagNumber'[k] = rx'[4 + k]
          /\ tagString' = arrayToHex([k \in 1..tagLength' |-> rx'[3 + k]])
          /\ ub' = ub]_vars

---------------------------------------------------------------------------
(* arrayToHex on its own.                                                  *)

\* void arrayToHex(char *s, byte array[], byte len): the buffer s points to
\* after the call; two characters per byte, then *s = 0
arrayToHex_s(s, array, len) ==
    PutSeq(PutSeq(s, 0, arrayToHex(SubSeq(array, 1, len))), 2 * len, <<0>>)

\* byte arrays of up to SIZE_TAGNUMBER bytes: every byte value in first
\* place, followed by equal, successive or scattered values
HexArrays ==
    {[i \in 1..n |-> (b + st * (i - 1)) % 256] :
        b \in Byte, st \in {0, 1, 17}, n \in 0..SIZE_TAGNUMBER}

\* what the destination buffer, a char[SIZE_TAGSTRING], holds before the call
HexBuffers == {[i \in 0..(SIZE_TAGSTRING - 1) |-> c] : c \in {0, 90}}

\* the reader object after construction, and the arguments of a call of
\* arrayToHex: s, array and len
InitHex ==
    /\ Construct
    /\ Untimed
    /\ variant = "SL018"
    /\ pinRESET = PIN_NONE
    /\ \E s \in HexBuffers, array \in HexArrays :
         args = <<s, array, Len(array)>>
    /\ sketch = NoSketch

\* the call arrayToHex(s, array, len): ret is what s points to afterwards
arrayToHex_Call ==
    /\ op = "constructor"
    /\ op' = "arrayToHex"
    /\ ret' = arrayToHex_s(args[1], args[2], args[3])
    /\ UNCHANGED <<config, object, args, wire, req, rx, top, rcvd, nops,
                   timing, cur, other, sketch, lines>>

NextHex == arrayToHex_Call

SpecHex == InitHex /\ [][NextHex]_vars

\* the characters '0'..'9', 'A'..'F'
HexDigits == <<48, 49, 50, 51, 52, 53, 54, 55, 56, 57, 65, 66, 67, 68, 69, 70>>

\* C19: arrayToHex, given a byte array of n <= 7 bytes, writes 2n characters,
\* for each byte in order the uppercase hexadecimal digit of its high nibble
\* and then that of its low nibble, followed by a zero; it writes nothing
\* else, and the result depends on nothing but the bytes.
C19_ArrayToHex ==
    op = "arrayToHex" =>
        LET s0    == args[1]
            array == args[2]
            n     == args[3]
        IN  /\ \A i \in 1..n :
                  /\ ret[2 * i - 2] = HexDigits[(array[i] \div 16) + 1]
                  /\ ret[2 * i - 1] = HexDigits[(array[i] % 16) + 1]
            /\ ret[2 * n] = 0
            /\ \A k \in DOMAIN s0 : k > 2 * n => ret[k] = s0[k]
            /\ DOMAIN ret = DOMAIN s0
            /\ object = <<[i \in 0..(SL018_SIZE_PACKET - 1) |-> 0],
                          [i \in 0..(SIZE_TAGNUMBER - 1) |-> 0], 0, <<>>, 0, 0,
                          0, [i \in 0..(SIZE_VERSIONSTRING - 1) |-> 0], 0, FALSE>>

\* C19 witness: a 7-byte id has been written as 14 characters and a zero,
\* among them digits above 9
C19_Witness ==
    /\ op = "arrayToHex"
    /\ args[3] = 7
    /\ ret[14] = 0
    /\ \A k \in 0..13 : ret[k] # 0
    /\ ret[0] = 65
    /\ ret[3] = 70

---------------------------------------------------------------------------
(* Sleep.                                                                  *)

\* available() is called while sleep is the last command issued
SleepPending ==
    /\ op' = "available"
    /\ \/ variant = "SL018" /\ cmd = SL018_CMD_SLEEP
       \/ variant = "SM130" /\ cmd = SM130_CMD_SLEEP

---------------------------------------------------------------------------
(* The demo sketches: sl018demo.pde, and the RFIDuino sketch in SM130.h.   *)

\* #define NONE 0, SEEK 1, READ 2, WRITE 3: the actions of the sketch
NONE == 0

SEEK == 1

READ == 2

WRITE == 3

\* SL018::MIFARE_ULTRALIGHT and SM130::MIFARE_ULTRALIGHT
SL018_MIFARE_ULTRALIGHT == 3

SM130_MIFARE_ULTRALIGHT == 1

\* SL018::LOGIN_OK, and 'L' in the sketch of the SM130
SL018_LOGIN_OK == 2

SM130_LOGIN_OK == 76

\* numBlocks = 16 in sl018demo.pde, numBlocks = 4 in the SM130 sketch
SL018_numBlocks == 16

SM130_numBlocks == 4

\* the page the sketches write to on a MIFARE Ultralight tag
LAST_PAGE == 15

MIFARE_ULTRALIGHT ==
    IF variant = "SL018" THEN SL018_MIFARE_ULTRALIGHT ELSE SM130_MIFARE_ULTRALIGHT

\* char msg[16] as readQuotedString leaves it: "Hi", zero-terminated
msg == <<72, 105>>

\* the sector of a block: 4 blocks per sector
Sector(b) == b \div 4

SameSector_Eight(b) == b % 8 # 0

\* (block & 0x03) != 0: block b is not the first block of its sector
SameSector(b) == b % 4 # 0

\* the characters the sketch acts on: seek, read, write, sleep, reset
SerialKeys == {"s", "r", "w", "q", "x"}

\* frames a device answers with to the command c pending in a sketch: a
\* status frame for success and one for failure, the record of a MIFARE 1K
\* or MIFARE Ultralight tag with a 4-byte id, and the data of a block or page
SL018_SketchFrames(c) ==
    CASE c \in {SL018_CMD_SEEK, SL018_CMD_SELECT} ->
            {SL018_Frame(2, SL018_CMD_SELECT, SL018_NO_TAG, 0),
             SL018_Frame(7, SL018_CMD_SELECT, SL018_OK, 1),
             SL018_Frame(7, SL018_CMD_SELECT, SL018_OK, SL018_MIFARE_ULTRALIGHT)}
      [] c = SL018_CMD_LOGIN ->
            {SL018_Frame(2, c, SL018_LOGIN_OK, 0), SL018_Frame(2, c, 3, 0)}
      [] c = SL018_CMD_READ16 ->
            {SL018_Frame(18, c, SL018_OK, 0), SL018_Frame(2, c, 4, 0)}
      [] c = SL018_CMD_READ4 ->
            {SL018_Frame(6, c, SL018_OK, 0), SL018_Frame(2, c, 4, 0)}
      [] OTHER ->
            {SL018_Frame(2, c, SL018_OK, 0), SL018_Frame(2, c, 5, 0)}

SL018_SketchTable ==
    [c \in SL018_Pending |->
        {<<>>} \cup {Deliver(f, SL018_available_len(c)) : f \in SL018_SketchFrames(c)}]

SM130_SketchFrames(c) ==
    CASE c \in {SM130_CMD_SEEK_TAG, SM130_CMD_SELECT_TAG} ->
            {SM130_Frame(2, c, SM130_NO_TAG, TRUE),
             SM130_Frame(2, c, SM130_SEEK_IN_PROGRESS, TRUE),
             SM130_Frame(6, c, 2, TRUE),
             SM130_Frame(6, c, SM130_MIFARE_ULTRALIGHT, TRUE)}
      [] c = SM130_CMD_AUTHENTICATE ->
            {SM130_Frame(2, c, SM130_LOGIN_OK, TRUE), SM130_Frame(2, c, 85, TRUE)}
      [] c \in {SM130_CMD_READ16, SM130_CMD_WRITE16} ->
            {SM130_Frame(18, c, 0, TRUE), SM130_Frame(2, c, 70, TRUE)}
      [] c = SM130_CMD_WRITE4 ->
            {SM130_Frame(6, c, 0, TRUE), SM130_Frame(2, c, 70, TRUE)}
      [] c = SM130_CMD_SLEEP ->
            {SM130_Frame(1, c, 0, TRUE)}
      [] OTHER ->
            {SM130_Frame(2, c, SM130_LOGIN_OK, TRUE), SM130_Frame(2, c, 85, TRUE)}

SM130_SketchTable ==
    [c \in SM130_Pending |->
        {<<>>} \cup {Deliver(f, SM130_available_len(c)) : f \in SM130_SketchFrames(c)}]

\* the global variables of a sketch when loop() is first entered, and what
\* is remembered of its commands: the sector of the last authenticate
\* (authFor), the sector of the most recent login response if that was a
\* success (login, else -1), the block of the last read command (lastRead),
\* the authenticate commands since then (auths), and both as they were when
\* the last read command was issued (prevRead, between)
SketchInit ==
    [on |-> TRUE, pc |-> "loop", keys |-> 0,
     action |-> NONE, authenticated |-> FALSE, block |-> 0, numBlocks |-> 0,
     tagType |-> 0,
     authFor |-> 0 - 1, login |-> 0 - 1, lastRead |-> 0 - 1, auths |-> 0,
     prevRead |-> 0 - 1, between |-> 0]

\* loop() makes no call of a member function in this step
NoCall ==
    UNCHANGED <<config, object, op, args, wire, req, rx, top, rcvd, ret, nops,
                timing, cur, other, lines>>

\* the call of a member function by the sketch: call is <<>>, or the name
\* of the function followed by its arguments
Call(call) ==
    IF call = <<>> THEN NoCall
    ELSE IF variant = "SL018"
      THEN CASE call[1] = "seekTag" -> SL018_seekTag
             [] call[1] = "selectTag" -> SL018_selectTag
             [] call[1] = "sleep" -> SL018_sleep
             [] call[1] = "reset" -> SL018_reset
             [] call[1] = "haltTag" -> SL018_haltTag
             [] call[1] = "authenticate" ->
                  SL018_Send("authenticate", <<call[2]>>,
                             SL018_authenticate1(data, call[2]), SL018_CMD_LOGIN)
             [] call[1] = "readBlock" ->
                  SL018_Send("readBlock", <<call[2]>>,
                             SL018_readBlock(data, call[2]), SL018_CMD_READ16)
             [] call[1] = "readPage" ->
                  SL018_Send("readPage", <<call[2]>>,
                             SL018_readPage(data, call[2]), SL018_CMD_READ4)
             [] call[1] = "writeBlock" ->
                  SL018_Send("writeBlock", <<call[2], call[3]>>,
                             SL018_writeBlock(data, call[2], Strncpy(call[3], 16)),
                             SL018_CMD_WRITE16)
             [] call[1] = "writePage" ->
                  SL018_Send("writePage", <<call[2], call[3]>>,
                             SL018_writePage(data, call[2], Strncpy(call[3], 4)),
                             SL018_CMD_WRITE4)
      ELSE CASE call[1] = "seekTag" -> SM130_seekTag
             [] call[1] = "selectTag" -> SM130_selectTag
             [] call[1] = "sleep" -> SM130_sleep
             [] call[1] = "reset" -> SM130_reset
             [] call[1] = "haltTag" -> SM130_haltTag
             [] call[1] = "authenticate" ->
                  SM130_Send("authenticate", <<call[2]>>,
                             SM130_authenticate1(data, call[2]), antennaPower)
             [] call[1] = "readBlock" ->
                  SM130_Send("readBlock", <<call[2]>>,
                             SM130_readBlock(data, call[2]), antennaPower)
             [] call[1] = "writeBlock" ->
                  SM130_Send("writeBlock", <<call[2], call[3]>>,
                             SM130_writeBlock(data, call[2], call[3]), antennaPower)
             [] call[1] = "writeFourByteBlock" ->
                  SM130_Send("writeFourByteBlock", <<call[2], call[3]>>,
                             SM130_writeFourByteBlock(data, call[2], call[3]),
                             antennaPower)

Authenticate_KeepFlag(sk, arg, s) ==
    [call |-> <<"authenticate", arg>>,
     sk   |-> [sk EXCEPT !.authFor = s, !.auths = @ + 1]]

\* the sketch issues authenticate with argument arg, for sector s:
\* authenticated = false; rfid.authenticate(...)
Authenticate(sk, arg, s) ==
    [call |-> <<"authenticate", arg>>,
     sk   |-> [sk EXCEPT !.authenticated = FALSE, !.authFor = s,
                         !.auths = @ + 1]]

\* the sketch issues the read command name for block b
Read_(sk, name, b) ==
    [call |-> <<name, b>>,
     sk   |-> [sk EXCEPT !.prevRead = sk.lastRead, !.between = sk.auths,
                         !.lastRead = b, !.auths = 0]]

\* the sketch ends its action: haltTag() (if halt), action = NONE
Done(sk, halt) ==
    [call |-> IF halt THEN <<"haltTag">> ELSE <<>>,
     sk   |-> [sk EXCEPT !.action = NONE]]

\* sl018demo.pde, loop(): the body of if(rfid.available()); sk is the
\* sketch, the result the call it makes and the sketch afterwards
SL018_Handle(sk) ==
    LET ok  == errorCode \in {SL018_OK, SL018_LOGIN_OK}
        sk0 == [sk EXCEPT !.pc = "loop",
                          !.login = IF cmd # SL018_CMD_LOGIN THEN @
                                    ELSE IF ok THEN sk.authFor ELSE 0 - 1]
    IN  IF ~ok
          THEN IF sk.action # SEEK THEN Done(sk0, TRUE)
               ELSE [call |-> <<>>, sk |-> sk0]
        ELSE IF cmd \in {SL018_CMD_SEEK, SL018_CMD_SELECT}
          THEN LET sk1 == [sk0 EXCEPT !.tagType = tagType]
               IN  IF sk.action \in {READ, WRITE}
                     THEN IF tagType = SL018_MIFARE_ULTRALIGHT
                            THEN LET sk2 == [sk1 EXCEPT !.authenticated = TRUE]
                                 IN  IF sk.action = READ
                                       THEN Read_(sk2, "readPage", sk.block)
                                       ELSE [call |-> <<"writePage", LAST_PAGE, msg>>,
                                             sk |-> sk2]
                            ELSE Authenticate(sk1, sk.block \div 4, Sector(sk.block))
                     ELSE Done(sk1, TRUE)
        ELSE IF cmd = SL018_CMD_LOGIN
          THEN LET sk1 == [sk0 EXCEPT !.authenticated = TRUE]
               IN  IF sk.action = READ THEN Read_(sk1, "readBlock", sk.block)
                   ELSE IF sk.action = WRITE
                     THEN [call |-> <<"writeBlock", sk.block, msg>>, sk |-> sk1]
                     ELSE [call |-> <<>>, sk |-> sk1]
        ELSE IF cmd \in {SL018_CMD_READ4, SL018_CMD_READ16}
          THEN \* if(++block && --numBlocks)
               LET b1  == (sk.block + 1) % 256
                   n1  == IF b1 # 0 THEN (sk.numBlocks + 255) % 256
                                    ELSE sk.numBlocks
                   sk1 == [sk0 EXCEPT !.block = b1, !.numBlocks = n1]
               IN  IF b1 # 0 /\ n1 # 0
                     THEN IF sk.tagType = SL018_MIFARE_ULTRALIGHT
                            THEN Read_(sk1, "readPage", b1)
                          ELSE IF sk.authenticated /\ SameSector(b1)
                            THEN Read_(sk1, "readBlock", b1)
                            ELSE Authenticate(sk1, b1 \div 4, Sector(b1))
                     ELSE Done(sk1, TRUE)
        ELSE IF cmd \in {SL018_CMD_WRITE4, SL018_CMD_WRITE16}
          THEN Done(sk0, TRUE)
          ELSE [call |-> <<>>, sk |-> sk0]

\* the sketch in SM130.h, loop(): the body of if(RFIDuino.available())
SM130_Handle(sk) ==
    LET e   == data[1]
        ok  == errorCode \in {0, SM130_LOGIN_OK}
        sk0 == [sk EXCEPT !.pc = "loop",
                          !.login = IF e # SM130_CMD_AUTHENTICATE THEN @
                                    ELSE IF ok THEN sk.authFor ELSE 0 - 1]
    IN  IF ~ok
          THEN Done(sk0, FALSE)
        ELSE IF e = SM130_CMD_SEEK_TAG
                /\ (errorCode = SM130_LOGIN_OK \/ sk.action = NONE)
          THEN [call |-> <<>>, sk |-> sk0]
        ELSE IF e \in {SM130_CMD_SEEK_TAG, SM130_CMD_SELECT_TAG}
          THEN LET sk1 == [sk0 EXCEPT !.tagType = tagType]
               IN  IF sk.action \in {READ, WRITE}
                     THEN IF tagType = SM130_MIFARE_ULTRALIGHT
                            THEN LET sk2 == [sk1 EXCEPT !.authenticated = TRUE]
                                 IN  IF sk.action = READ
                                       THEN Read_(sk2, "readBlock", sk.block)
                                       ELSE [call |-> <<"writeFourByteBlock",
                                                        LAST_PAGE, msg>>,
                                             sk |-> sk2]
                            ELSE Authenticate(sk1, sk.block, Sector(sk.block))
                   ELSE IF sk.action = SEEK
                     THEN [call |-> <<"seekTag">>, sk |-> sk1]
                     ELSE Done(sk1, FALSE)
        ELSE IF e = SM130_CMD_AUTHENTICATE
          THEN LET sk1 == [sk0 EXCEPT !.authenticated = TRUE]
               IN  IF sk.action = READ THEN Read_(sk1, "readBlock", sk.block)
                   ELSE IF sk.action = WRITE
                     THEN [call |-> <<"writeBlock", sk.block, msg>>, sk |-> sk1]
                     ELSE [call |-> <<>>, sk |-> sk1]
        ELSE IF e = SM130_CMD_READ16
          THEN \* if(++block < numBlocks)
               LET b1  == (sk.block + 1) % 256
                   sk1 == [sk0 EXCEPT !.block = b1]
               IN  IF b1 < sk.numBlocks
                     THEN IF sk.tagType = SM130_MIFARE_ULTRALIGHT
                            THEN Read_(sk1, "readBlock", (b1 * 4) % 256)
                          ELSE IF sk.authenticated /\ SameSector(b1)
                            THEN Read_(sk1, "readBlock", b1)
                            ELSE Authenticate(sk1, b1, Sector(b1))
                     ELSE Done(sk1, TRUE)
        ELSE IF e \in {SM130_CMD_WRITE4, SM130_CMD_WRITE16}
          THEN Done(sk0, TRUE)
          ELSE [call |-> <<>>, sk |-> sk0]

\* loop(): a character has arrived on the serial port
SketchKey ==
    /\ sketch.on
    /\ sketch.pc = "loop"
    /\ sketch.keys < MaxKeys
    /\ \E ch \in SerialKeys :
         LET sk0 == [sketch EXCEPT !.keys = @ + 1, !.pc = "poll"]
             N   == IF variant = "SL018" THEN SL018_numBlocks ELSE SM130_numBlocks
         IN  CASE ch = "s" ->
                    /\ Call(<<"seekTag">>)
                    /\ sketch' = [sk0 EXCEPT !.action = SEEK]
               [] ch = "r" ->
                    /\ Call(<<"selectTag">>)
                    /\ sketch' = [sk0 EXCEPT !.action = READ, !.block = 0,
                                             !.numBlocks = N,
                                             !.lastRead = 0 - 1, !.auths = 0]
               [] ch = "w" ->
                    /\ Call(<<"selectTag">>)
                    /\ sketch' = [sk0 EXCEPT !.action = WRITE, !.block = 1,
                                             !.lastRead = 0 - 1, !.auths = 0]
               [] ch = "q" ->
                    /\ Call(<<"sleep">>)
                    /\ sketch' = sk0
               [] ch = "x" ->
                    /\ Call(<<"reset">>)
                    /\ sketch' = [sk0 EXCEPT !.action = NONE]

\* loop(): the call of available()
SketchPoll ==
    /\ sketch.on
    /\ sketch.pc \in {"loop", "poll"}
    /\ IF variant = "SL018"
         THEN SL018_availableOn(SL018_SketchTable)
         ELSE SM130_availableOn(SM130_SketchTable)
    /\ sketch' = [sketch EXCEPT !.pc = IF ret' = "true" THEN "handle" ELSE "loop"]

\* loop(): available() has returned true
SketchHandle ==
    /\ sketch.on
    /\ sketch.pc = "handle"
    /\ \E dec \in {IF variant = "SL018" THEN SL018_Handle(sketch)
                                        ELSE SM130_Handle(sketch)} :
         /\ Call(dec.call)
         /\ sketch' = dec.sk

\* the reader object after construction with the pins of the constructor,
\* and the sketch when loop() is first entered
InitSketch ==
    /\ Construct
    /\ pinRESET = (IF variant = "SL018" THEN PIN_NONE ELSE 3)
    /\ args = <<>>
    /\ Untimed
    /\ sketch = SketchInit

NextSketch ==
    \/ SketchKey
    \/ SketchPoll
    \/ SketchHandle

SpecSketch == InitSketch /\ [][NextSketch]_vars

\* ------------------------------------------------------------------------
\* the read sequence of the demo sketches

\* this step of the sketch issues a read command
ReadIssued ==
    /\ sketch'.on
    /\ nops' = nops + 1
    /\ op' \in {"readBlock", "readPage"}

\* this step of the sketch issues an authenticate command
AuthenticateIssued ==
    /\ sketch'.on
    /\ nops' = nops + 1
    /\ op' = "authenticate"

\* C15: in the read sequence of both demo sketches, for a tag that is not
\* an Ultralight, exactly one authenticate command is issued between the
\* read of the last block of a sector and the read of the next block (blocks
\* 3 and 4 in particular), and none between the reads of two blocks of the
\* same sector; for an Ultralight tag no authenticate command is issued at
\* all
C15_SectorBoundary ==
    [][ /\ (ReadIssued /\ sketch'.tagType # MIFARE_ULTRALIGHT
                       /\ sketch'.prevRead >= 0)
             => /\ (sketch'.prevRead = 3 /\ sketch'.lastRead = 4)
                     => sketch'.between = 1
                /\ (/\ sketch'.lastRead = sketch'.prevRead + 1
                    /\ Sector(sketch'.lastRead) # Sector(sketch'.prevRead))
                     => sketch'.between = 1
                /\ Sector(sketch'.lastRead) = Sector(sketch'.prevRead)
                     => sketch'.between = 0
        /\ AuthenticateIssued => sketch'.tagType # MIFARE_ULTRALIGHT
      ]_vars

\* the read of block 4 has been issued after the read of block 3, with one
\* authenticate between them, for a tag that is not an Ultralight
C15_Witness ==
    /\ sketch.on
    /\ op = "readBlock"
    /\ args = <<4>>
    /\ sketch.tagType # MIFARE_ULTRALIGHT
    /\ sketch.prevRead = 3
    /\ sketch.lastRead = 4
    /\ sketch.between = 1

\* this step of the sketch issues a block read or a block write
BlockIssued ==
    /\ sketch'.on
    /\ nops' = nops + 1
    /\ op' \in {"readBlock", "writeBlock"}

\* the read sequence moves on to a block of the next sector, with blocks
\* left to read
NewSector ==
    /\ sketch.on
    /\ sketch.pc = "handle"
    /\ sketch'.block = (sketch.block + 1) % 256
    /\ Sector(sketch'.block) # Sector(sketch.block)
    /\ sketch'.action = READ

\* the statement of C16 as written: with a tag that is not an Ultralight,
\* authenticated is true only if the last login response was a success for
\* the sector of the current block, a block read or write is issued only
\* when authenticated is true for its sector, and whenever block moves to
\* another sector authenticated is false afterwards
C16_Authenticated_Always ==
    [][ (sketch'.on /\ sketch'.tagType # MIFARE_ULTRALIGHT)
          => /\ sketch'.authenticated
                  => sketch'.login = Sector(sketch'.block)
             /\ BlockIssued
                  => /\ sketch'.authenticated
                     /\ sketch'.login = Sector(args'[1])
             /\ (sketch.on /\ Sector(sketch'.block) # Sector(sketch.block))
                  => ~sketch'.authenticated
      ]_vars

\* C16: in both demo sketches, with a tag that is not an Ultralight, a
\* block read or write for block b is issued only when authenticated is
\* true and the last login response was a success for the sector of b;
\* authenticated becomes true only when a successful login response for
\* the sector of the current block is handled; and when the read sequence
\* moves on to a block of the next sector, authenticated is set to false
\* and an authenticate command is issued before the next read
C16_Authenticated ==
    [][ (sketch'.on /\ sketch'.tagType # MIFARE_ULTRALIGHT)
          => /\ BlockIssued
                  => /\ sketch'.authenticated
                     /\ sketch'.login = Sector(args'[1])
             /\ (sketch.on /\ ~sketch.authenticated /\ sketch'.authenticated)
                  => /\ sketch.pc = "handle"
                     /\ errorCode \in {0, SL018_LOGIN_OK, SM130_LOGIN_OK}
                     /\ sketch'.login = Sector(sketch'.block)
             /\ NewSector
                  => /\ ~sketch'.authenticated
                     /\ AuthenticateIssued
      ]_vars

\* the write of block 1 has been issued after a successful login for
\* sector 0, for a tag that is not an Ultralight
C16_Witness ==
    /\ sketch.on
    /\ op = "writeBlock"
    /\ args[1] = 1
    /\ sketch.tagType # MIFARE_ULTRALIGHT
    /\ sketch.authenticated
    /\ sketch.login = 0
    /\ sketch.auths = 1

---------------------------------------------------------------------------
(* Termination of available().                                             *)

\* C21: available() never blocks on the device: every call returns true or
\* false after at most one bus read and at most one bus write (the select
\* frame that continues a seek), whatever the device answers.
C21_NeverBlocks ==
    op = "available" =>
        /\ ret \in {"true", "false"}
        /\ Len(wire) <= 1
        /\ Len(wire) = 1 => (variant = "SL018" /\ cmd = SL018_CMD_SEEK)
        /\ req = 0 => rx = <<>>

---------------------------------------------------------------------------
(* The firmware version cache of the SM130.                                *)

\* this call of available() decodes a response to RESET or to VERSION
VersionResponse ==
    /\ variant = "SM130"
    /\ op' = "available"
    /\ rcvd' > 0
    /\ data'[1] \in {SM130_CMD_RESET, SM130_CMD_VERSION}

---------------------------------------------------------------------------
(* The payload of the SL018 write commands.                                *)

\* C26: the frame writeBlock(block, message) sends carries, after the block
\* number, the 16 bytes of message unchanged, and the frame
\* writePage(page, message) sends carries the 4 bytes of message unchanged.
C26_WritePayload ==
    (variant = "SL018" /\ op \in {"writeBlock", "writePage"}) =>
        LET n == IF op = "writeBlock" THEN 16 ELSE 4
        IN  /\ Len(wire) = 1
            /\ Len(wire[1]) = 3 + n
            /\ wire[1][3] = args[1]
            /\ SubSeq(wire[1], 4, 3 + n) = args[2]

---------------------------------------------------------------------------
(* The error code of the SM130.                                            *)

\* the byte a char holds
ToByte(c) == (c + 256) % 256

\* C27: after available() has decoded a response on the SM130, errorCode
\* holds the byte at offset 2 of the response if its length byte is below 3
\* and is 0 otherwise; after the acknowledgement of an antenna power command
\* errorCode is 0 whatever the length byte, and antennaPower is the byte at
\* offset 2.
C27_ErrorCode ==
    (variant = "SM130" /\ op = "available" /\ rcvd > 0) =>
        IF data[1] = SM130_CMD_ANTENNA_POWER
          THEN errorCode = 0 /\ antennaPower = data[2]
          ELSE IF data[0] < 3 THEN ToByte(errorCode) = data[2]
                              ELSE errorCode = 0

\* the acknowledgement of an antenna power command with a length byte of 2
\* has been decoded: errorCode is 0 although the byte at offset 2 is not
C27_Witness ==
    /\ variant = "SM130"
    /\ op = "available"
    /\ rcvd > 0
    /\ data[1] = SM130_CMD_ANTENNA_POWER
    /\ data[0] = 2
    /\ data[2] = SM130_NO_TAG
    /\ errorCode = 0
    /\ antennaPower = SM130_NO_TAG

---------------------------------------------------------------------------
(* Late responses.                                                         *)

\* the command codes a response to a seek or a select echoes
SeekSelectEchoes ==
    IF variant = "SL018" THEN {SL018_CMD_SELECT}
    ELSE {SM130_CMD_SEEK_TAG, SM130_CMD_SELECT_TAG}

\* the command code the response to the last issued command echoes
ExpectedEcho == IF variant = "SL018" THEN SL018_Echo(cmd) ELSE cmd

\* C28: available() sets a tagLength other than 0 only when the command
\* code echoed in the response (byte 1) is that of a seek or a select and
\* is the echo of the last issued command: the late response to an
\* abandoned command is not turned into a tag record.
C28_TagOnlyFromSeek ==
    (op = "available" /\ rcvd > 0 /\ tagLength # 0) =>
        /\ data[1] \in SeekSelectEchoes
        /\ data[1] = ExpectedEcho

---------------------------------------------------------------------------
(* Two reader objects.                                                     *)

\* C24: a call of a member function of one reader object (a command, a
\* poll with available(), reset) leaves every field of the other reader
\* object unchanged: its packet buffer, last command, errorCode, tag fields
\* and gate deadline t.
C24_OtherUnchanged ==
    [][ (timed /\ op' # "switch") => other' = other ]_vars

---------------------------------------------------------------------------
(* Polling the DREADY pin.                                                 *)

\* a call of available() made in SEEK mode with a DREADY pin configured
\* finds the DREADY line low
PollNotReady ==
    /\ op' = "available"
    /\ pinDREADY # PIN_NONE
    /\ cmd = SeekCommand
    /\ ~dready

\* C25: on each variant, a call of available() made in SEEK mode with
\* pinDREADY configured (not 0xff) reads the DREADY pin and makes no bus
\* read while the pin is low; with pinDREADY = 0xff, or with any other
\* command pending, available() polls over the bus (an SL018 with no
\* command pending, cmd being CMD_IDLE or CMD_RESET, is left aside).
C25_DreadyPolling ==
    [][ /\ PollNotReady => (req' = 0 /\ ret' = "false")
        /\ (op' = "available" /\ ~PollNotReady
                              /\ cmd \notin {SL018_CMD_IDLE, SL018_CMD_RESET})
             => req' > 0
      ]_vars

---------------------------------------------------------------------------
(* The steps of SM130::reset().                                            *)

\* the frame of a command without parameters, and of ANTENNA_POWER(1)
IsCommandFrame(f, c) == Len(f) = 3 /\ f[1] = 1 /\ f[2] = c

IsAntennaOn(f) ==
    Len(f) = 4 /\ f[1] = 2 /\ f[2] = SM130_CMD_ANTENNA_POWER /\ f[3] = 1

\* C30: SM130::reset() pulses the reset pin (HIGH, then LOW) before it
\* writes anything to the bus if pinRESET is configured, and sends a RESET
\* command and leaves the pin alone otherwise; then it sends
\* ANTENNA_POWER(1), then HALT_TAG, and nothing else.  On return the last
\* issued command is HALT_TAG and antennaPower is 1, whatever the state
\* before.
C30_ResetSteps ==
    (variant = "SM130" /\ op = "reset") =>
        /\ IF pinRESET # PIN_NONE
             THEN /\ pulse = <<[level |-> "HIGH", sent |-> 0],
                               [level |-> "LOW", sent |-> 0]>>
                  /\ Len(wire) = 2
             ELSE /\ pulse = <<>>
                  /\ Len(wire) = 3
                  /\ IsCommandFrame(wire[1], SM130_CMD_RESET)
        /\ IsAntennaOn(wire[Len(wire) - 1])
        /\ IsCommandFrame(wire[Len(wire)], SM130_CMD_HALT_TAG)
        /\ cmd = SM130_CMD_HALT_TAG
        /\ antennaPower = 1

\* reset() over the bus has returned, called on a reader that had decoded
\* a tag record
C30_Witness ==
    /\ variant = "SM130"
    /\ op = "reset"
    /\ pinRESET = PIN_NONE
    /\ Len(wire) = 3
    /\ tagLength # 0
    /\ nops = 3
    /\ cmd = SM130_CMD_HALT_TAG
    /\ antennaPower = 1


---------------------------------------------------------------------------
(* const char* SM130::getFirmwareVersion(), followed step by step.         *)

\* for (byte n = 0; n < 10; n++): a further iteration after n of them
SM130_getFirmwareVersion_more_Eleven(n) == n < 11
SM130_getFirmwareVersion_more(n) == n < 10

\* available() && getCommand() == CMD_VERSION: the test that ends the loop
SM130_getFirmwareVersion_found(avail, d) ==
    avail = "true" /\ d[1] = SM130_CMD_VERSION

\* the C string in the char array a: the characters before the first 0
CString(a) ==
    LET ends == {i \in DOMAIN a : a[i] = 0}
        n == IF ends = {} THEN Cardinality(DOMAIN a)
             ELSE CHOOSE i \in ends : \A j \in ends : i <= j
    IN  [k \in 1..n |-> a[k - 1]]

\* the firmware strings of the devices followed: "I2C 2.8" and "UM"
Firmwares == {<<73, 50, 67, 32, 50, 46, 56>>, <<85, 77>>}

\* the frame a device with firmware string fw answers CMD_VERSION and
\* CMD_RESET with: length, command echo e, the string, checksum
SM130_VersionFrame(e, fw) ==
    LET body == <<Len(fw) + 1, e>> \o fw
    IN  Append(body, SumBytes(body) % 256)

\* frames a device with firmware string fw may answer with while command c
\* is pending: the answer to c, and the answer to an earlier CMD_VERSION or
\* CMD_RESET that arrives late
SM130_VersionFrames(c, fw) ==
    {SM130_VersionFrame(e, fw) : e \in {SM130_CMD_VERSION, SM130_CMD_RESET}}
    \cup (IF c \in {0, SM130_CMD_VERSION, SM130_CMD_RESET} THEN {}
          ELSE IF c = SM130_CMD_READ16 THEN {SM130_Frame(18, c, 1, TRUE)}
          ELSE IF c = SM130_CMD_SEEK_TAG
            THEN {SM130_Frame(6, c, 1, TRUE),
                  SM130_Frame(2, c, SM130_NO_TAG, TRUE)}
          ELSE {SM130_Frame(2, c, 1, TRUE)})

\* what a bus read delivers from that device: nothing, or the first bytes
\* of one of its frames
SM130_VersionTable(fw) ==
    [c \in SM130_Pending \cup {SM130_CMD_VERSION} |->
        {<<>>} \cup {Deliver(f, SM130_available_len(c)) :
                        f \in SM130_VersionFrames(c, fw)}]

\* the caller of getFirmwareVersion(): pc is the position inside the
\* function ("idle" outside it), n the loop counter, sent and polls the
\* CMD_VERSION commands and the calls of available() of the call under way
\* or last made, returns the value each completed call returned (null or a
\* string) with its number of commands, others the calls of other member
\* functions
VersionInit(fw) ==
    [on |-> TRUE, fw |-> fw, pc |-> "idle", n |-> 0, sent |-> 0, polls |-> 0,
     returns |-> <<>>, others |-> 0]

\* return p; with s the string p points to
Returned(isnull, s, k) == [null |-> isnull, str |-> s, sent |-> k]

\* if (*versionString != 0) return versionString; else the first pass of
\* the loop: sendCommand(CMD_VERSION)
SM130_getFirmwareVersion ==
    /\ sketch.pc = "idle"
    /\ Len(sketch.returns) < MaxFetches
    /\ IF versionString[0] # 0
         THEN /\ NoCall
              /\ sketch' = [sketch EXCEPT
                    !.n = 0, !.sent = 0, !.polls = 0,
                    !.returns = Append(@, Returned(FALSE,
                                           CString(versionString), 0))]
         ELSE /\ SM130_getFirmwareVersion_more(0)
              /\ SM130_Send("sendCommand", <<SM130_CMD_VERSION>>,
                            SM130_sendCommand(data, SM130_CMD_VERSION),
                            antennaPower)
              /\ sketch' = [sketch EXCEPT
                    !.pc = "poll", !.n = 0, !.sent = 1, !.polls = 0]

\* if (available() && getCommand() == CMD_VERSION) return versionString;
\* delay(100); n++, and the loop test: return 0 when it fails
SM130_getFirmwareVersion_poll ==
    /\ sketch.pc = "poll"
    /\ SM130_availableOn(SM130_VersionTable(sketch.fw))
    /\ IF SM130_getFirmwareVersion_found(ret', data')
         THEN sketch' = [sketch EXCEPT
                 !.pc = "idle", !.polls = @ + 1,
                 !.returns = Append(@, Returned(FALSE,
                                        CString(versionString'), sketch.sent))]
         ELSE IF SM130_getFirmwareVersion_more(sketch.n + 1)
           THEN sketch' = [sketch EXCEPT
                   !.pc = "send", !.polls = @ + 1, !.n = @ + 1]
           ELSE sketch' = [sketch EXCEPT
                   !.pc = "idle", !.polls = @ + 1, !.n = @ + 1,
                   !.returns = Append(@, Returned(TRUE, <<>>, sketch.sent))]

\* sendCommand(CMD_VERSION) in a later pass of the loop
SM130_getFirmwareVersion_send ==
    /\ sketch.pc = "send"
    /\ SM130_Send("sendCommand", <<SM130_CMD_VERSION>>,
                  SM130_sendCommand(data, SM130_CMD_VERSION), antennaPower)
    /\ sketch' = [sketch EXCEPT !.pc = "poll", !.sent = @ + 1]

\* the caller makes another call between two calls of getFirmwareVersion()
VersionOther ==
    /\ sketch.pc = "idle"
    /\ sketch.others < MaxOthers
    /\ \/ SM130_reset
       \/ SM130_seekTag
       \/ SM130_haltTag
       \/ SM130_Send("readBlock", <<1>>, SM130_readBlock(data, 1),
                     antennaPower)
       \/ SM130_availableOn(SM130_VersionTable(sketch.fw))
    /\ sketch' = [sketch EXCEPT !.others = @ + 1]

InitVersion ==
    /\ Construct
    /\ variant = "SM130"
    /\ args = <<>>
    /\ Untimed
    /\ \E fw \in Firmwares : sketch = VersionInit(fw)

NextVersion ==
    \/ SM130_getFirmwareVersion
    \/ SM130_getFirmwareVersion_poll
    \/ SM130_getFirmwareVersion_send
    \/ VersionOther

SpecVersion == InitVersion /\ [][NextVersion]_vars


---------------------------------------------------------------------------
(* C29: the loop of getFirmwareVersion().                                  *)

\* the value the call of getFirmwareVersion() that ends in this step returns
LastReturn == sketch'.returns[Len(sketch'.returns)]

\* C29: getFirmwareVersion() with an empty cache sends at most 10 VERSION
\* commands and calls available() once after each; it returns the cached
\* string at the first of these calls that receives a response whose
\* command echo is VERSION, and returns a null pointer after the 10th call
\* that does not
C29_FetchLoop ==
    [][ /\ sketch.pc = "idle" /\ sketch'.pc # "idle" =>
            /\ versionString[0] = 0
            /\ wire' = <<SM130_transmitData(
                           SM130_sendCommand(data, SM130_CMD_VERSION))>>
            /\ sketch'.pc = "poll"
            /\ sketch'.sent = 1
            /\ sketch'.polls = 0
        /\ sketch.pc = "send" =>
            /\ wire' = <<SM130_transmitData(
                           SM130_sendCommand(data, SM130_CMD_VERSION))>>
            /\ sketch'.pc = "poll"
            /\ sketch'.sent = sketch.sent + 1
            /\ sketch'.sent <= 10
            /\ sketch'.polls = sketch.polls
        /\ sketch.pc = "poll" =>
            /\ op' = "available"
            /\ nops' = nops + 1
            /\ sketch'.sent = sketch.sent
            /\ sketch'.polls = sketch.polls + 1
            /\ sketch'.polls = sketch.sent
            /\ IF rcvd' > 0 /\ data'[1] = SM130_CMD_VERSION
                 THEN /\ sketch'.pc = "idle"
                      /\ LastReturn = Returned(FALSE, CString(versionString'),
                                               sketch.sent)
                 ELSE IF sketch.sent = 10
                   THEN /\ sketch'.pc = "idle"
                        /\ LastReturn = Returned(TRUE, <<>>, 10)
                   ELSE /\ sketch'.pc = "send"
                        /\ sketch'.returns = sketch.returns
      ]_vars

\* a call of getFirmwareVersion() has returned a null pointer after 10
\* commands without a VERSION response, and a second call has returned the
\* firmware string at its third poll
C29_Witness ==
    /\ "returns" \in DOMAIN sketch
    /\ sketch.pc = "idle"
    /\ Len(sketch.returns) = 2
    /\ sketch.returns[1] = Returned(TRUE, <<>>, 10)
    /\ sketch.returns[2] = Returned(FALSE, sketch.fw, 3)
    /\ sketch.polls = 3


---------------------------------------------------------------------------
(* C23: the firmware version is fetched once.                              *)

\* C23: once a call of getFirmwareVersion() has returned a non-empty
\* string, every later call, whatever other member functions were called in
\* between, sends no VERSION command and returns that same string
C23_FetchedOnce ==
    \A i, j \in 1..Len(sketch.returns) :
        /\ i < j
        /\ ~sketch.returns[i].null
        /\ sketch.returns[i].str # <<>>
        => sketch.returns[j] = Returned(FALSE, sketch.returns[i].str, 0)


---------------------------------------------------------------------------
(* C31: the SL018 with no command pending.                                 *)

\* the last call was haltTag() or a software reset, or a call of
\* available() since then that made no bus transaction
AfterHalt ==
    /\ variant = "SL018"
    /\ \/ op = "haltTag"
       \/ op = "reset" /\ pinRESET = PIN_NONE
       \/ op = "available" /\ req = 0 /\ wire = <<>> /\ ret = "false"

\* C31: on the SL018, a call of available() after haltTag() or a software
\* reset, with no command sent since, returns false, makes no bus
\* transaction and leaves every field of the reader as it was
C31_IdlePoll ==
    [][ AfterHalt /\ op' = "available" =>
            /\ ret' = "false"
            /\ req' = 0
            /\ rx' = <<>>
            /\ wire' = <<>>
            /\ UNCHANGED <<data, cmd, tagNumber, tagLength, tagString, tagType,
                           errorCode>>
      ]_vars

\* available() has been called twice after a software reset
C31_Witness ==
    /\ variant = "SL018"
    /\ pinRESET = PIN_NONE
    /\ cmd = SL018_CMD_RESET
    /\ op = "available"
    /\ ret = "false"
    /\ nops = 3


---------------------------------------------------------------------------
(* C32: what available() returns on the SL018 in seek mode.                *)

\* the frame seekTag() writes to the bus
SeekFrame == <<1, SL018_CMD_SELECT>>

\* C32: on the SL018 in seek mode, available() returns true only with
\* errorCode = 0, tagLength >= 4 and a non-empty tagString; on every
\* response with a non-zero status or a length byte below 7 it sends the
\* select command again, stays in seek mode and returns false
C32_SeekResult ==
    [][ variant = "SL018" /\ cmd = SL018_CMD_SEEK /\ op' = "available" =>
            /\ ret' = "true" =>
                  /\ errorCode' = 0
                  /\ tagLength' >= 4
                  /\ tagString' # <<>>
            /\ rx' # <<>> /\ (rx'[3] # 0 \/ rx'[1] < 7) =>
                  /\ ret' = "false"
                  /\ wire' = <<SeekFrame>>
                  /\ cmd' = SL018_CMD_SEEK
      ]_vars


---------------------------------------------------------------------------
(* C33: the fields a caller reads after available() returned false.        *)

\* C33 as stated: a call of available() that returns false leaves tagType,
\* tagLength, tagString and errorCode as they were before the call
C33_FalseKeepsFields ==
    [][ op' = "available" /\ ret' = "false" =>
            UNCHANGED <<tagType, tagLength, tagString, errorCode>>
      ]_vars


\* C33: a call of available() that returns false without a response to
\* process (receiveData returned 0, or no bus read was made) leaves
\* tagType, tagLength, tagString and errorCode as they were; the two calls
\* that return false after processing a response, the seek continuation of
\* the SL018 and the sleep response of the SM130, clear tagType, tagLength
\* and tagString and set errorCode from the response
C33_FalseFields ==
    [][ op' = "available" /\ ret' = "false" =>
            IF rcvd' = 0
              THEN UNCHANGED <<tagType, tagLength, tagString, errorCode>>
              ELSE /\ tagType' = 0
                   /\ tagLength' = 0
                   /\ tagString' = <<>>
                   /\ IF variant = "SL018"
                        THEN /\ cmd = SL018_CMD_SEEK
                             /\ wire' = <<SeekFrame>>
                             /\ errorCode' = ToChar(data'[2])
                        ELSE /\ data'[1] = SM130_CMD_SLEEP
                             /\ errorCode' = (IF data'[0] < 3
                                                THEN ToChar(data'[2]) ELSE 0)
      ]_vars

\* the SL018 in seek mode has reported a tag, and the next call of
\* available() has processed a "no tag" response and returned false
C33_Witness ==
    /\ variant = "SL018"
    /\ op = "available"
    /\ ret = "false"
    /\ rcvd # 0
    /\ nops = 3
    /\ wire = <<SeekFrame>>
    /\ errorCode = SL018_NO_TAG
    /\ tagLength = 0
    /\ tagNumber[0] = 170


---------------------------------------------------------------------------
(* The seek loop of the example in SL018.h:                                *)
(*   loop() { rfid.seekTag(); while(!rfid.available());                    *)
(*            Serial.println(rfid.getTagString()); }                       *)

\* the tag records the reader answers a select with: a 4-byte and a 7-byte
\* tag id, status 0
SeekTagRecords ==
    {Deliver(SL018_Frame(L, SL018_CMD_SELECT, SL018_OK, 1),
             SL018_available_len(SL018_CMD_SEEK)) : L \in {7, 10}}

\* the other answers of the reader to a select: none yet, and "no tag"
SeekNoTagAnswers ==
    {<<>>, Deliver(SL018_Frame(2, SL018_CMD_SELECT, SL018_NO_TAG, 1),
                   SL018_available_len(SL018_CMD_SEEK))}

\* what the reader holds for the next read after polls reads without a tag
\* record: a tag comes into the field after MaxPolls of them at the latest
SeekTable(polls) ==
    [c \in SL018_Pending |->
        IF polls < MaxPolls THEN SeekNoTagAnswers \cup SeekTagRecords
                            ELSE SeekTagRecords]

\* the sketch before loop() is first called: pc is the position in loop(),
\* rounds the passes of loop() begun, polls the calls of available() in
\* this pass, printed the last string given to Serial.println
SeekInit == [on |-> TRUE, pc |-> "seek", rounds |-> 0, polls |-> 0,
             printed |-> <<>>]

\* rfid.seekTag();
SeekLoop_seek ==
    /\ sketch.pc = "seek"
    /\ sketch.rounds < MaxRounds
    /\ SL018_seekTag
    /\ sketch' = [sketch EXCEPT !.pc = "poll", !.polls = 0, !.rounds = @ + 1]

\* while(!rfid.available());
SeekLoop_poll ==
    /\ sketch.pc = "poll"
    /\ sketch.polls <= MaxPolls
    /\ SL018_availableOn(SeekTable(sketch.polls))
    /\ sketch' = [sketch EXCEPT
                    !.pc = IF ret' = "true" THEN "print" ELSE "poll",
                    !.polls = @ + 1]

\* Serial.println(rfid.getTagString());
SeekLoop_print ==
    /\ sketch.pc = "print"
    /\ NoCall
    /\ sketch' = [sketch EXCEPT !.pc = "seek", !.printed = tagString]

InitSeek ==
    /\ Construct
    /\ variant = "SL018"
    /\ pinRESET = PIN_NONE
    /\ args = <<>>
    /\ Untimed
    /\ sketch = SeekInit

NextSeek ==
    \/ SeekLoop_seek
    \/ SeekLoop_poll
    \/ SeekLoop_print

\* loop() is called again and again, and every call inside it returns
SpecSeek == InitSeek /\ [][NextSeek]_vars /\ WF_vars(NextSeek)

---------------------------------------------------------------------------
(* C34: the seek loop finds the tag.                                       *)

\* the tag id in the tag record just read
RecordId == SubSeq(rx, 4, rx[1])

\* available() has returned true with the id of the tag record just read
TagReported ==
    /\ op = "available"
    /\ ret = "true"
    /\ rx # <<>>
    /\ rx[3] = SL018_OK
    /\ rx[1] >= 7
    /\ tagLength = Len(RecordId)
    /\ \A k \in 1..Len(RecordId) : tagNumber[k - 1] = RecordId[k]
    /\ tagString = arrayToHex(RecordId)

\* C34: after seekTag(), with the caller polling available() and the reader
\* answering a select with a tag record at some time, available() at some
\* time returns true with the id of that record; until then cmd stays
\* CMD_SEEK, a "no tag" response is followed by one select sent again and a
\* read without a response by none
C34_SeekLive ==
    /\ (op = "seekTag") ~> TagReported
    /\ [][ sketch.pc = "poll" =>
              /\ op' = "available"
              /\ cmd = SL018_CMD_SEEK
              /\ cmd' = SL018_CMD_SEEK
              /\ IF rx' = <<>>
                   THEN ret' = "false" /\ wire' = <<>>
                   ELSE IF rx'[3] = SL018_NO_TAG
                     THEN ret' = "false" /\ wire' = <<SeekFrame>>
                     ELSE ret' = "true" /\ wire' = <<>>
        ]_vars

\* in the seek loop, available() has returned true with a tag record after
\* two "no tag" responses and a read without a response
C34_Witness ==
    /\ "rounds" \in DOMAIN sketch
    /\ sketch.pc = "print"
    /\ sketch.polls = 4
    /\ TagReported
    /\ nops = 5


---------------------------------------------------------------------------
(* C35: the bytes the checksum test of SM130::receiveData reads.           *)

\* C35: on the SM130, receiveData returns the length byte of a packet (the
\* checksum is verified) only when the bus read of this call delivered the
\* length byte + 2 bytes of the packet, so that neither the bytes summed
\* nor the checksum byte compared are left over from before the read
C35_ChecksumOfThisRead ==
    variant = "SM130" /\ op = "available" /\ rcvd \in 1..SM130_SIZE_PAYLOAD
        => Len(rx) >= rcvd + 2

=============================================================================
